---- MODULE Spec2Model ----
(***************************************************************************)
(* Verification model of tfjs-layers: the callback machinery              *)
(* (callbacks.ts: CallbackList, ModelTrainingYielder, BaseLogger, History, *)
(* CustomCallback, standardizeCallbacks), Model.save / loadModel through   *)
(* an IOHandler,                                                           *)
(* isModelSequentialLike and printSummary (utils/layer_utils.ts), the      *)
(* class weights of Model.fit, and the browser save handlers               *)
(* (engine/save_load.ts).  Each component has its own specification over   *)
(* the shared variables; a specification leaves the variables of the other *)
(* components at their initial values.                                     *)
(***************************************************************************)
EXTENDS Integers, Sequences, FiniteSets, TLC

VARIABLES
  \* ---- ModelTrainingYielder (callbacks.ts 212-281)
  batchCount,            \* this.batchCount
  lastYieldBatchCount,   \* this.lastYieldBatchCount (NULL until first yield)
  batchStartMillis,      \* this.batchStartMillis
  batchDurationsMillis,  \* this.batchDurationsMillis
  autoYieldEveryBatches, \* this.autoYieldEveryBatches (NULL, a number or Infinity)
  ypc,                   \* position inside maybeYieldOnBatch
  ylogs,                 \* the logs argument of the call in progress
  ycalls,                \* history: maybeYieldOnBatch calls made on this yielder
  measured,              \* history: t - batchStartMillis observed by each call
  yieldTrace,            \* history: awaits performed, <<batchCount, what>>
  \* ---- CallbackList (callbacks.ts 82-205) driven by the fit() loop
  callbacks,             \* this.callbacks (callback ids in registration order)
  dev,                   \* the CallbackList method in progress, "none" if none
  darg,                  \* its epoch / batch argument
  didx,                  \* callbacks already awaited by its for-of loop
  dhook,                 \* "pending" while the awaited hook promise is unresolved
  started,               \* history: <<callback, hook>> invoked by this dispatch
  resolved,              \* history: <<callback, hook>> whose promise resolved
  fpc,                   \* position of the fit() loop
  fepoch,                \* fit(): epoch index
  fbatch,                \* fit(): batch index
  epochs,                \* fit(): number of epochs E
  batches,               \* fit(): number of batches per epoch B
  nAtStart,              \* history: callbacks registered when training began
  etrace,                \* history: dispatches, hook invocations, gradient steps
  herror,                \* the error a hook's promise rejected with
  derror,                \* the error the CallbackList method rejected with
  \* ---- History (callbacks.ts 366-413)
  epoch,                 \* this.epoch
  history,               \* this.history: key -> list of numbers / tensors
  hstate,                \* "new", "training" or "failed" (the run was aborted)
  hrun,                  \* history: number of onTrainBegin calls so far
  hcalls,                \* history: the onEpochEnd calls of this run
  disposed,              \* per tensor id, the number of dispose() calls
  sync,                  \* the syncData() invocations, by invocation number
  \* ---- BaseLogger (callbacks.ts 288-359)
  seen,                  \* this.seen
  totals,                \* this.totals: key -> number / running-total tensor
  metrics,               \* this.params['metrics']
  lpc,                   \* position of the BaseLogger lifecycle
  blogs,                 \* the logs argument of the onBatchEnd in progress
  elogs,                 \* the logs object handed to the last onEpochEnd
  elogsNull,             \* whether that logs argument was null / undefined
  egiven,                \* history: that logs object as it was passed in
  ltensors,              \* tensors made by BaseLogger: kind, key, dispose() calls
  lbadRead,              \* history: a tensor was read after its disposal
  lbatches,              \* history: the batch logs of the current epoch
  lepochs,               \* history: number of onEpochBegin calls
  \* ---- CustomCallback (callbacks.ts 427-486)
  uconfig,               \* the hooks for which the config has a user function
  uhook,                 \* the hook in progress, "none" if none
  upc,                   \* position inside that hook
  ulogs,                 \* its logs argument: key -> kind of value
  ulogsNull,             \* whether its logs argument is null / undefined
  ugiven,                \* history: the logs as they were when the hook was called
  uobs,                  \* history: last user-function invocation (hook, logs seen)
  \* ---- Model.save / loadModel (model_save_test.ts)
  smodel,                \* the model being saved: topology and weights
  shandler,              \* the IOHandler given to the save() in progress
  sconfig,               \* its options: trainableOnly
  spc,                   \* position inside Model.save
  serror,                \* message of the error save() rejected with
  nsaves,                \* history: number of save() calls
  hsaves,                \* history: artifacts handed to handler.save by this call
  store,                 \* what the handler persists (its last successful save)
  loaded,                \* result of the last loadModel from the handler
  \* ---- isModelSequentialLike (utils/layer_utils.ts 102-137)
  qmodel,                \* the model: its nodes, their inbound nodes and layers
  qpc,                   \* position inside isModelSequentialLike
  sequentialLike,        \* let sequentialLike
  nodes,                 \* const nodes: the nodes of the buckets visited
  qdepth,                \* index of the depth bucket the first loop is at
  qlayer,                \* index in model.layers the second loop is at
  qinstance,             \* the class the model is an instance of
  \* ---- printSummary (utils/layer_utils.ts 31-99)
  pversion,              \* which of the two versions of printSummary runs
  lineLength,            \* lineLength (NULL while the argument is undefined)
  positions,             \* positions
  positionsGiven,        \* history: the positions argument as it was passed
  printFn,               \* the function printSummary prints with
  pfrozen,               \* whether the last layer of the model is frozen
  pcompiled,             \* whether the model has collectedTrainableWeights
  ppc,                   \* position inside printSummary
  pli,                   \* let i of the loop over model.layers
  lines,                 \* const lines
  calls,                 \* history: the calls of print functions, in order
  \* ---- fit() with classWeight
  wn,                    \* number of outputs of the model
  wentries,              \* the class weights meant for each output
  wenc,                  \* encoding of the targets of the first output
  wclasses,              \* per output, the class of each sample
  classWeight,           \* the classWeight option as given to fit()
  wpc,                   \* position of the resolution
  wstd,                  \* the entry per output the option resolved to
  wo,                    \* the output whose sample weights come next
  sampleWeights,         \* per output, the weight of each sample (tenths)
  werror,                \* message of the error fit() threw
  \* ---- save handlers (engine/save_load.ts)
  ienv,                  \* whether localStorage is defined in the environment
  localStorage,          \* window.localStorage: key -> value
  icall,                 \* history: the last toLocalStorage / toDownloadAnchors
  ithrown,               \* the error that call threw, NoThrow if none
  ihandler,              \* the handler that call returned, NoHandler if none
  ipc,                   \* position inside the handler being run
  iconfig,               \* the config the handler was invoked with
  modelJSONAnchor,       \* modelJSONAnchor: href, download, clicks
  weightsDataAnchor,     \* weightsDataAnchor: href, download, clicks
  ncalls,                \* history: handlers made plus handlers invoked
  \* ---- CallbackList.onEpochEnd over a BaseLogger and a History
  xorder,                \* this.callbacks: the two callbacks in list order
  xpc,                   \* position inside CallbackList.onEpochEnd
  xatStart,              \* history: the logs object as it was when the loop began
  xepoch,                \* History: this.epoch
  xhistory,              \* History: this.history
  \* ---- standardizeCallbacks (callbacks.ts 488-508)
  zarg,                  \* the callbacks argument
  zpc,                   \* "called" until the function returned
  zout                   \* the value returned

yvars == <<batchCount, lastYieldBatchCount, batchStartMillis,
           batchDurationsMillis, autoYieldEveryBatches, ypc, ylogs, ycalls,
           measured, yieldTrace>>

cvars == <<callbacks, dev, darg, didx, dhook, started, resolved, fpc, fepoch,
           fbatch, epochs, batches, nAtStart, etrace, herror, derror>>

hvars == <<epoch, history, hstate, hrun, hcalls, disposed, sync>>

lvars == <<seen, totals, metrics, lpc, blogs, elogs, elogsNull, egiven,
           ltensors, lbadRead, lbatches, lepochs>>

uvars == <<uconfig, uhook, upc, ulogs, ulogsNull, ugiven, uobs>>

svars == <<smodel, shandler, sconfig, spc, serror, nsaves, hsaves, store,
           loaded>>

qvars == <<qmodel, qpc, sequentialLike, nodes, qdepth, qlayer, qinstance>>

pvars == <<pversion, lineLength, positions, positionsGiven, printFn, pfrozen,
           pcompiled, ppc, pli, lines, calls>>

wvars == <<wn, wentries, wenc, wclasses, classWeight, wpc, wstd, wo,
           sampleWeights, werror>>

ivars == <<ienv, localStorage, icall, ithrown, ihandler, ipc, iconfig,
           modelJSONAnchor, weightsDataAnchor, ncalls>>

xvars == <<xorder, xpc, xatStart, xepoch, xhistory>>

zvars == <<zarg, zpc, zout>>

vars == <<yvars, cvars, hvars, lvars, uvars, svars, qvars,
          pvars, wvars, ivars, xvars, zvars>>

\* Variables a specification leaves alone
notY == <<cvars, hvars, lvars, uvars, svars, qvars,
          pvars, wvars, ivars, xvars, zvars>>
notC == <<yvars, hvars, lvars, uvars, svars, qvars,
          pvars, wvars, ivars, xvars, zvars>>
notH == <<yvars, cvars, lvars, uvars, svars, qvars,
          pvars, wvars, ivars, xvars, zvars>>
notL == <<cvars, hvars, uvars, svars, qvars, pvars,
          wvars, ivars, xvars, zvars>>
notU == <<yvars, cvars, hvars, lvars, svars, qvars,
          pvars, wvars, ivars, xvars, zvars>>
notS == <<yvars, cvars, hvars, lvars, uvars, qvars,
          pvars, wvars, ivars, xvars, zvars>>
notQ == <<yvars, cvars, hvars, lvars, uvars, svars,
          pvars, wvars, ivars, xvars, zvars>>
notP == <<yvars, cvars, hvars, lvars, uvars, svars,
          qvars, wvars, ivars, xvars, zvars>>
notW == <<yvars, cvars, hvars, lvars, uvars, svars,
          qvars, pvars, ivars, xvars, zvars>>
notI == <<yvars, cvars, hvars, lvars, uvars, svars,
          qvars, pvars, wvars, xvars, zvars>>
notX == <<yvars, cvars, hvars, lvars, uvars, svars,
          qvars, pvars, wvars, ivars, zvars>>
notZ == <<yvars, cvars, hvars, lvars, uvars, svars,
          qvars, pvars, wvars, ivars, xvars>>
notLX == <<cvars, hvars, uvars, svars, qvars, pvars, wvars, ivars, zvars>>

----------------------------------------------------------------------------
\* Generic helpers

NULL == -1        \* JavaScript null / undefined of a numeric field
Infinity == -2    \* IEEE-754 +Infinity (result of 16 / 0)

Max(a, b) == IF a >= b THEN a ELSE b
MaxOf(S) == CHOOSE x \in S : \A y \in S : y <= x

RECURSIVE SumSeq(_)
SumSeq(s) == IF s = <<>> THEN 0 ELSE Head(s) + SumSeq(Tail(s))

----------------------------------------------------------------------------
\* ModelTrainingYielder

AUTO_YIELD_THRESHOLD_MILLIS == 16
AUTO_YIELD_DECISION_BATCH_COUNT == 2

\* Bounds of the yielder specification
MaxBatchCount == 8
Durations == {0, 8, 16, 40}   \* values of Date.now() - batchStartMillis

\* The logs handed to maybeYieldOnBatch, as the kinds of their values in
\* key order ("num" = typeof value === 'number', "tensor" = pending Scalar).
YieldLogs == { <<>>, <<"num">>, <<"num", "tensor">>, <<"tensor", "num">> }

\* resolveOneTensorInLogs: index of the first non-number value, 0 if none.
FirstTensorM(logs) == IF Len(logs) > 0 THEN 1 ELSE 0
FirstTensor(logs) ==
  IF \E i \in 1..Len(logs) : logs[i] # "num"
    THEN CHOOSE i \in 1..Len(logs) :
           logs[i] # "num" /\ \A j \in 1..(i - 1) : logs[j] = "num"
    ELSE 0

\* Math.floor(AUTO_YIELD_THRESHOLD_MILLIS / mean(durations)) on non-negative
\* integer durations: threshold / (sum / n) = threshold * n / sum; a zero
\* mean gives 16 / 0 = Infinity, and Math.floor(Infinity) = Infinity.
FloorThresholdOverMean(durations) ==
  IF SumSeq(durations) = 0
    THEN Infinity
    ELSE (AUTO_YIELD_THRESHOLD_MILLIS * Len(durations)) \div SumSeq(durations)

\* if (this.autoYieldEveryBatches < 1) this.autoYieldEveryBatches = 1;
\* Infinity < 1 is false, so Infinity is kept.
ClampBelowOne(v) == IF v # Infinity /\ v < 1 THEN 1 ELSE v

\* this.batchCount++
IncrementedM(bc) == bc
Incremented(bc) == bc + 1

\* if (this.batchCount > 1)
RecordsDurationM(bc) == bc > 2
RecordsDuration(bc) == bc > 1

\* if (this.batchDurationsMillis.length >= AUTO_YIELD_DECISION_BATCH_COUNT)
DecidesNow(durations) == Len(durations) >= AUTO_YIELD_DECISION_BATCH_COUNT

\* if (this.autoYieldEveryBatches == null)
CalibratingM(every) == every = Infinity
Calibrating(every) == every = NULL

\* this.batchCount - this.lastYieldBatchCount >= this.autoYieldEveryBatches
\* (a comparison with Infinity is false for every finite left-hand side)
YieldDueM(bc, last, every) == every # Infinity /\ bc - last > every
YieldDue(bc, last, every) == every # Infinity /\ bc - last >= every

YielderInit ==
  /\ batchCount = 0
  /\ lastYieldBatchCount = NULL
  /\ batchStartMillis = 0
  /\ batchDurationsMillis = <<>>
  /\ autoYieldEveryBatches = NULL
  /\ ypc = "idle"
  /\ ylogs = <<>>
  /\ ycalls = 0
  /\ measured = <<>>
  /\ yieldTrace = <<>>

\* maybeYieldOnBatch(logs) up to its first await.
MaybeYieldOnBatchBody(logs) ==
  /\ ypc = "idle"
  /\ batchCount < MaxBatchCount
  /\ batchCount' = Incremented(batchCount)
  /\ ylogs' = logs
  /\ ycalls' = ycalls + 1
  /\ IF Calibrating(autoYieldEveryBatches)
       THEN ypc' = IF FirstTensor(logs) # 0 THEN "calData" ELSE "calFrame"
       ELSE IF YieldDue(batchCount + 1, lastYieldBatchCount,
                        autoYieldEveryBatches)
         THEN ypc' = IF FirstTensor(logs) # 0 THEN "stData" ELSE "stFrame"
         ELSE ypc' = "idle"
  /\ UNCHANGED <<lastYieldBatchCount, batchStartMillis, batchDurationsMillis,
                 autoYieldEveryBatches, measured, yieldTrace>>

\* A call of maybeYieldOnBatch on a yielder of its own.
MaybeYieldOnBatch(logs) ==
  /\ MaybeYieldOnBatchBody(logs)
  /\ UNCHANGED notY

\* await (value as Scalar).data() inside resolveOneTensorInLogs completes.
DataResolved ==
  /\ ypc \in {"calData", "stData"}
  /\ ypc' = IF ypc = "calData" THEN "calFrame" ELSE "stFrame"
  /\ yieldTrace' = Append(yieldTrace, <<batchCount, "data">>)
  /\ UNCHANGED <<batchCount, lastYieldBatchCount, batchStartMillis,
                 batchDurationsMillis, autoYieldEveryBatches, ylogs, ycalls,
                 measured>>
  /\ UNCHANGED notY

\* await nextFrame() completes in the calibration branch; dt is the reading
\* Date.now() - this.batchStartMillis.
CalibrationFrame(dt) ==
  /\ ypc = "calFrame"
  /\ LET t == batchStartMillis + dt
         durations == IF RecordsDuration(batchCount)
                        THEN Append(batchDurationsMillis, t - batchStartMillis)
                        ELSE batchDurationsMillis
     IN /\ batchDurationsMillis' = durations
        /\ autoYieldEveryBatches' =
             IF RecordsDuration(batchCount) /\ DecidesNow(durations)
               THEN ClampBelowOne(FloorThresholdOverMean(durations))
               ELSE autoYieldEveryBatches
        /\ batchStartMillis' = t
        /\ measured' = Append(measured, t - batchStartMillis)
  /\ lastYieldBatchCount' = batchCount
  /\ yieldTrace' = Append(yieldTrace, <<batchCount, "frame">>)
  /\ ypc' = "idle"
  /\ UNCHANGED <<batchCount, ylogs, ycalls>>
  /\ UNCHANGED notY

\* await nextFrame() completes in the steady-state branch.
SteadyFrame ==
  /\ ypc = "stFrame"
  /\ lastYieldBatchCount' = batchCount
  /\ yieldTrace' = Append(yieldTrace, <<batchCount, "frame">>)
  /\ ypc' = "idle"
  /\ UNCHANGED <<batchCount, batchStartMillis, batchDurationsMillis,
                 autoYieldEveryBatches, ylogs, ycalls, measured>>
  /\ UNCHANGED notY

YielderNext ==
  \/ \E logs \in YieldLogs : MaybeYieldOnBatch(logs)
  \/ DataResolved
  \/ \E dt \in Durations : CalibrationFrame(dt)
  \/ SteadyFrame

----------------------------------------------------------------------------
\* CallbackList, driven by the fit() loop

\* Bounds of the CallbackList specification
MaxCallbacks == 2
MaxEpochs == 2
MaxBatches == 2

\* The errors a hook may reject with
HookErrors == {"E1", "E2"}

Events == {"onTrainBegin", "onEpochBegin", "onBatchBegin", "onBatchEnd",
           "onEpochEnd", "onTrainEnd"}

\* Each CallbackList method awaits the hook of the same name:
\* onBatchEnd awaits callback.onBatchEnd, and so on (lines 134-202).
HookOfM(ev) == IF ev = "onBatchEnd" THEN "onBatchBegin" ELSE ev
HookOf(ev) == ev

\* for (const callback of this.callbacks): the loop body runs for the next
\* callback only after the awaited hook of the previous one has resolved.
MayInvokeNextM(idx, hook, cbs) == idx < Len(cbs)
MayInvokeNext(idx, hook, cbs) == hook = "none" /\ idx < Len(cbs)

\* The for-of loop is over once every element of the (live) array was visited.
LoopOver(idx, hook, cbs) == hook = "none" /\ idx >= Len(cbs)

\* The fit() loop of section 4.4: the CallbackList method fit() awaits next
\* after the one at position pc returned ("step" is the gradient step).
FitAfter(pc, e, b, E, B) ==
  CASE pc = "start"        -> [pc |-> "onTrainBegin", e |-> NULL, b |-> NULL]
    [] pc = "onTrainBegin" -> IF E > 0
                                THEN [pc |-> "onEpochBegin", e |-> 0, b |-> NULL]
                                ELSE [pc |-> "onTrainEnd", e |-> NULL, b |-> NULL]
    [] pc = "onEpochBegin" -> [pc |-> "onBatchBegin", e |-> e, b |-> 0]
    [] pc = "onBatchBegin" -> [pc |-> "step", e |-> e, b |-> b]
    [] pc = "step"         -> [pc |-> "onBatchEnd", e |-> e, b |-> b]
    [] pc = "onBatchEnd"   -> IF b + 1 < B
                                THEN [pc |-> "onBatchBegin", e |-> e, b |-> b + 1]
                                ELSE [pc |-> "onEpochEnd", e |-> e, b |-> NULL]
    [] pc = "onEpochEnd"   -> IF e + 1 < E
                                THEN [pc |-> "onEpochBegin", e |-> e + 1, b |-> NULL]
                                ELSE [pc |-> "onTrainEnd", e |-> NULL, b |-> NULL]
    [] pc = "onTrainEnd"   -> [pc |-> "done", e |-> NULL, b |-> NULL]

\* The index fit() hands to the CallbackList method: the epoch for epoch
\* events, the batch for batch events, nothing for train events.
ArgOf(ev, e, b) ==
  IF ev \in {"onEpochBegin", "onEpochEnd"} THEN e
  ELSE IF ev \in {"onBatchBegin", "onBatchEnd"} THEN b
  ELSE NULL

Entry(kind, name, arg, cb) == [k |-> kind, n |-> name, a |-> arg, cb |-> cb]

\* new CallbackList(callbacks): the constructor array, [] when it is null.
ListInit ==
  /\ callbacks \in {<<>>, <<1>>, <<1, 2>>}
  /\ dev = "none"
  /\ darg = NULL
  /\ didx = 0
  /\ dhook = "none"
  /\ started = <<>>
  /\ resolved = <<>>
  /\ fpc = "start"
  /\ fepoch = NULL
  /\ fbatch = NULL
  /\ epochs \in 0..MaxEpochs
  /\ batches \in 1..MaxBatches
  /\ nAtStart = 0
  /\ etrace = <<>>
  /\ herror = "none"
  /\ derror = "none"

\* The CallbackList of a specification that does not use it.
ListIdle ==
  /\ callbacks = <<>>
  /\ dev = "none"
  /\ darg = NULL
  /\ didx = 0
  /\ dhook = "none"
  /\ started = <<>>
  /\ resolved = <<>>
  /\ fpc = "start"
  /\ fepoch = NULL
  /\ fbatch = NULL
  /\ epochs = 0
  /\ batches = 1
  /\ nAtStart = 0
  /\ etrace = <<>>
  /\ herror = "none"
  /\ derror = "none"

\* CallbackList.append(callback)
AppendCallback ==
  /\ Len(callbacks) < MaxCallbacks
  /\ fpc \notin {"done", "rejected"}
  /\ callbacks' = Append(callbacks, Len(callbacks) + 1)
  /\ UNCHANGED <<dev, darg, didx, dhook, started, resolved, fpc, fepoch,
                 fbatch, epochs, batches, nAtStart, etrace>>
  /\ UNCHANGED <<herror, derror>>
  /\ UNCHANGED notC

\* fit() calls the CallbackList method ev (onTrainBegin ... onTrainEnd); the
\* method runs up to its first await.
Dispatch(ev) ==
  /\ dev = "none"
  /\ fpc \notin {"done", "rejected"}
  /\ LET nxt == FitAfter(fpc, fepoch, fbatch, epochs, batches)
     IN /\ nxt.pc = ev
        /\ fpc' = nxt.pc
        /\ fepoch' = nxt.e
        /\ fbatch' = nxt.b
        /\ darg' = ArgOf(ev, nxt.e, nxt.b)
        /\ etrace' = Append(etrace, Entry("call", ev, ArgOf(ev, nxt.e, nxt.b), 0))
  /\ dev' = ev
  /\ didx' = 0
  /\ dhook' = "none"
  /\ started' = <<>>
  /\ resolved' = <<>>
  /\ nAtStart' = IF ev = "onTrainBegin" THEN Len(callbacks) ELSE nAtStart
  /\ UNCHANGED <<callbacks, epochs, batches>>
  /\ UNCHANGED <<herror, derror>>
  /\ UNCHANGED notC

OnTrainBegin == Dispatch("onTrainBegin")
OnEpochBegin == Dispatch("onEpochBegin")
OnBatchBegin == Dispatch("onBatchBegin")
OnBatchEnd == Dispatch("onBatchEnd")
OnEpochEnd == Dispatch("onEpochEnd")
OnTrainEnd == Dispatch("onTrainEnd")

\* Loop body: await callback.<hook>(arg, logs) invokes the hook of the next
\* callback; the method is suspended until the returned promise settles.
HookInvoke ==
  /\ dev # "none"
  /\ MayInvokeNext(didx, dhook, callbacks)
  /\ LET cb == callbacks[didx + 1]
     IN /\ started' = Append(started, <<cb, HookOf(dev)>>)
        /\ etrace' = Append(etrace, Entry("hook", HookOf(dev), darg, cb))
  /\ dhook' = "pending"
  /\ UNCHANGED <<callbacks, dev, darg, didx, resolved, fpc, fepoch, fbatch,
                 epochs, batches, nAtStart>>
  /\ UNCHANGED <<herror, derror>>
  /\ UNCHANGED notC

\* The awaited hook promise resolves; the loop moves to the next callback.
HookResolve ==
  /\ dev # "none"
  /\ dhook = "pending"
  /\ resolved' = Append(resolved, <<callbacks[didx + 1], HookOf(dev)>>)
  /\ didx' = didx + 1
  /\ dhook' = "none"
  /\ UNCHANGED <<callbacks, dev, darg, started, fpc, fepoch, fbatch, epochs,
                 batches, nAtStart, etrace>>
  /\ UNCHANGED <<herror, derror>>
  /\ UNCHANGED notC

\* await of a promise that rejects with err: the error thrown at the await.
ThrownByAwaitM(err) == "Error"
ThrownByAwait(err) == err

\* The awaited hook promise rejects with err: nothing catches what the
\* await throws, so the method rejects with it and so does fit().
HookReject(err) ==
  /\ dev # "none"
  /\ dhook = "pending"
  /\ herror' = err
  /\ derror' = ThrownByAwait(err)
  /\ dev' = "none"
  /\ dhook' = "none"
  /\ fpc' = "rejected"
  /\ UNCHANGED <<callbacks, darg, didx, started, resolved, fepoch, fbatch,
                 epochs, batches, nAtStart, etrace>>
  /\ UNCHANGED notC

\* The for-of loop ends and the method's promise resolves; fit() continues.
DispatchReturn ==
  /\ dev # "none"
  /\ LoopOver(didx, dhook, callbacks)
  /\ etrace' = Append(etrace, Entry("ret", dev, darg, 0))
  /\ dev' = "none"
  /\ fpc' = IF FitAfter(fpc, fepoch, fbatch, epochs, batches).pc = "done"
              THEN "done" ELSE fpc
  /\ UNCHANGED <<callbacks, darg, didx, dhook, started, resolved, fepoch,
                 fbatch, epochs, batches, nAtStart>>
  /\ UNCHANGED <<herror, derror>>
  /\ UNCHANGED notC

\* fit(): the gradient step of the current batch (loss, gradients, optimizer).
GradientStep ==
  /\ dev = "none"
  /\ fpc \notin {"done", "rejected"}
  /\ FitAfter(fpc, fepoch, fbatch, epochs, batches).pc = "step"
  /\ etrace' = Append(etrace, Entry("step", "step", fbatch, 0))
  /\ fpc' = "step"
  /\ UNCHANGED <<callbacks, dev, darg, didx, dhook, started, resolved, fepoch,
                 fbatch, epochs, batches, nAtStart>>
  /\ UNCHANGED <<herror, derror>>
  /\ UNCHANGED notC

\* fit(): the gradient step throws; fit() rejects.
GradientStepFails ==
  /\ dev = "none"
  /\ fpc \notin {"done", "rejected"}
  /\ FitAfter(fpc, fepoch, fbatch, epochs, batches).pc = "step"
  /\ fpc' = "rejected"
  /\ UNCHANGED <<callbacks, dev, darg, didx, dhook, started, resolved, fepoch,
                 fbatch, epochs, batches, nAtStart, etrace>>
  /\ UNCHANGED <<herror, derror>>
  /\ UNCHANGED notC

ListNext ==
  \/ AppendCallback
  \/ OnTrainBegin
  \/ OnEpochBegin
  \/ OnBatchBegin
  \/ OnBatchEnd
  \/ OnEpochEnd
  \/ OnTrainEnd
  \/ HookInvoke
  \/ HookResolve
  \/ \E err \in HookErrors : HookReject(err)
  \/ DispatchReturn
  \/ GradientStep
  \/ GradientStepFails

----------------------------------------------------------------------------
\* History

\* Bounds of the History specification
MaxEpochEnds == 2     \* onEpochEnd calls per run
MaxRuns == 2          \* onTrainBegin calls
MaxSyncCalls == 2     \* syncData invocations

HKeys == {"loss", "acc"}
\* for (const key in this.history): the keys in insertion order.
HKeyOrder == <<"loss", "acc">>

\* A log value: a plain number, or a Tensor with an identity and its data.
Absent == [t |-> "absent", id |-> 0, data |-> <<>>]
NumV(n) == [t |-> "num", id |-> 0, data |-> <<n>>]
TensorV(i, d) == [t |-> "tensor", id |-> i, data |-> d]

\* What the caller may put under one key of the logs of onEpochEnd.
HShapes == {Absent, NumV(1), TensorV(0, <<2, 1>>)}
HLogShapes == [HKeys -> HShapes]

\* The tensors of the logs are fresh tensors: they get the next free ids,
\* in key order.
FreshLogs(shape, n) ==
  [k \in HKeys |->
     IF shape[k].t # "tensor" THEN shape[k]
     ELSE TensorV(n + Cardinality({j \in 1..Len(HKeyOrder) :
                       /\ shape[HKeyOrder[j]].t = "tensor"
                       /\ \E i \in j..Len(HKeyOrder) : HKeyOrder[i] = k}),
                  shape[k].data)]

NumTensors(shape) == Cardinality({k \in HKeys : shape[k].t = "tensor"})

\* this.epoch.push(epoch)
EpochPushM(ep, e) == <<e>>
EpochPush(ep, e) == Append(ep, e)

\* this.history[key].push(logs[key]) (on [] when the key is new)
HistoryPushM(list, v) == <<v>> \o list
HistoryPush(list, v) == Append(list, v)

\* values[n][0]
Element0M(data) == data[Len(data)]
Element0(data) == data[1]

IdleSync == [st |-> "idle", items |-> <<>>, snap |-> <<>>, post |-> <<>>]

HistoryInit ==
  /\ epoch = <<>>
  /\ history = [k \in HKeys |-> <<>>]
  /\ hstate = "new"
  /\ hrun = 0
  /\ hcalls = <<>>
  /\ disposed = <<>>
  /\ sync = [i \in 1..MaxSyncCalls |-> IdleSync]

\* History.onTrainBegin.  fit() awaits syncData before it returns and a run
\* begins with onTrainBegin, so no syncData is pending when it is called.
\* The tensors and the finished syncData invocations of the previous run are
\* not followed any further.
History_onTrainBegin ==
  /\ hrun < MaxRuns
  /\ \A i \in DOMAIN sync : sync[i].st # "awaiting"
  /\ epoch' = <<>>
  /\ history' = [k \in HKeys |-> <<>>]
  /\ hstate' = "training"
  /\ hrun' = hrun + 1
  /\ hcalls' = <<>>
  /\ disposed' = <<>>
  /\ sync' = [i \in 1..MaxSyncCalls |-> IdleSync]
  /\ UNCHANGED notH

\* History.onEpochEnd(e, logs); isNull: logs is null or undefined.  The
\* training loop numbers the epochs of a run 0, 1, 2, ...
History_onEpochEnd(e, shape, isNull) ==
  /\ hstate = "training"
  /\ Len(hcalls) < MaxEpochEnds
  /\ e = Len(hcalls)
  /\ isNull => shape = [k \in HKeys |-> Absent]
  /\ LET logs == FreshLogs(shape, Len(disposed))
     IN /\ epoch' = EpochPush(epoch, e)
        /\ history' = [k \in HKeys |->
                         IF logs[k].t # "absent"
                           THEN HistoryPush(history[k], logs[k])
                           ELSE history[k]]
        /\ hcalls' = Append(hcalls, [e |-> e, logs |-> logs])
        /\ disposed' = disposed \o [i \in 1..NumTensors(shape) |-> 0]
  /\ UNCHANGED <<hstate, hrun, sync>>
  /\ UNCHANGED notH

\* The training run is aborted (a batch step or a callback hook rejected):
\* fit() rejects and makes no further call on the History.
TrainingFails ==
  /\ hstate = "training"
  /\ hstate' = "failed"
  /\ UNCHANGED <<epoch, history, hrun, hcalls, disposed, sync>>
  /\ UNCHANGED notH

RECURSIVE PendingOfKeyM(_, _, _)
PendingOfKeyM(h, key, i) ==
  IF i > Len(h[key]) THEN <<>>
  ELSE << [key |-> key, idx |-> i, data |-> h[key][i].data] >>
       \o PendingOfKeyM(h, key, i + 1)

\* syncData, lines 392-405: the <<key, index, data>> of every non-number
\* entry, keys in iteration order, indices ascending.
RECURSIVE PendingOfKey(_, _, _)
PendingOfKey(h, key, i) ==
  IF i > Len(h[key]) THEN <<>>
  ELSE (IF h[key][i].t # "num"
          THEN << [key |-> key, idx |-> i, data |-> h[key][i].data] >>
          ELSE <<>>)
       \o PendingOfKey(h, key, i + 1)

RECURSIVE PendingFrom(_, _)
PendingFrom(h, j) ==
  IF j > Len(HKeyOrder) THEN <<>>
  ELSE PendingOfKey(h, HKeyOrder[j], 1) \o PendingFrom(h, j + 1)

\* data() throws on a tensor that was already disposed.
ReadsDisposed(h, disp) ==
  \E k \in HKeys : \E i \in 1..Len(h[k]) :
    h[k][i].t = "tensor" /\ disp[h[k][i].id] > 0

\* syncData up to "await Promise.all(promises)".
History_syncData(c) ==
  /\ hstate # "new"
  /\ sync[c].st = "idle"
  /\ \A b \in 1..(c - 1) : sync[b].st # "idle"
  /\ sync' = [sync EXCEPT ![c] =
                IF ReadsDisposed(history, disposed)
                  THEN [IdleSync EXCEPT !.st = "rejected", !.snap = history]
                  ELSE [IdleSync EXCEPT !.st = "awaiting",
                                        !.items = PendingFrom(history, 1),
                                        !.snap = history]]
  /\ UNCHANGED <<epoch, history, hstate, hrun, hcalls, disposed>>
  /\ UNCHANGED notH

\* syncData, lines 407-411, from item n on, on the state st = [h, d, ok]:
\* dispose the entry now at keys[n], indices[n] and store values[n][0]
\* there.  Calling dispose on a missing entry or on a number is a TypeError,
\* which ends the loop with the writes made so far.
RECURSIVE WriteBack(_, _, _)
WriteBack(items, n, st) ==
  IF n > Len(items) THEN st
  ELSE LET it == items[n]
           present == it.idx <= Len(st.h[it.key])
       IN IF ~present \/ st.h[it.key][it.idx].t # "tensor"
            THEN [st EXCEPT !.ok = FALSE]
            ELSE WriteBack(items, n + 1,
                   [h |-> [st.h EXCEPT ![it.key][it.idx] = NumV(Element0(it.data))],
                    d |-> [st.d EXCEPT ![st.h[it.key][it.idx].id] = @ + 1],
                    ok |-> TRUE])

\* syncData after Promise.all resolved.
History_syncDataResumes(c) ==
  /\ sync[c].st = "awaiting"
  /\ LET r == WriteBack(sync[c].items, 1, [h |-> history, d |-> disposed, ok |-> TRUE])
     IN /\ history' = r.h
        /\ disposed' = r.d
        /\ sync' = [sync EXCEPT ![c].st = IF r.ok THEN "resolved" ELSE "rejected",
                                ![c].post = r.h]
  /\ UNCHANGED <<epoch, hstate, hrun, hcalls>>
  /\ UNCHANGED notH

HistoryNext ==
  \/ History_onTrainBegin
  \/ \E e \in 0..(MaxEpochEnds - 1), shape \in HLogShapes, isNull \in BOOLEAN :
       History_onEpochEnd(e, shape, isNull)
  \/ TrainingFails
  \/ \E c \in 1..MaxSyncCalls : History_syncData(c)
  \/ \E c \in 1..MaxSyncCalls : History_syncDataResumes(c)

----------------------------------------------------------------------------
\* BaseLogger

\* Bounds of the BaseLogger specification
MaxLoggerEpochs == 2      \* onEpochBegin calls
MaxLoggerBatches == 2     \* onBatchEnd calls per epoch

LKeys == {"size", "loss", "acc", "val_loss"}
\* for (const key in logs): the keys in insertion order.
LKeyOrder == <<"size", "loss", "acc", "val_loss">>

\* Exact values n / d; d = 0 encodes the IEEE results of a division by
\* zero: 1 / 0 is Infinity, 0 / 0 is NaN.
RECURSIVE GCD(_, _)
GCD(a, b) == IF b = 0 THEN a ELSE GCD(b, a % b)
Norm(q) ==
  IF q.d = 0 THEN [n |-> IF q.n = 0 THEN 0 ELSE 1, d |-> 0]
  ELSE [n |-> q.n \div GCD(q.n, q.d), d |-> q.d \div GCD(q.n, q.d)]
Whole(i) == [n |-> i, d |-> 1]
RAdd(a, b) == Norm([n |-> a.n * b.d + b.n * a.d, d |-> a.d * b.d])
RMul(a, b) == Norm([n |-> a.n * b.n, d |-> a.d * b.d])
RDiv(a, b) == Norm([n |-> a.n * b.d, d |-> a.d * b.n])

\* A log value: missing, a number, or a Scalar tensor (id > 0 when it was
\* made by BaseLogger, 0 when it belongs to the caller).
LAbsent == [t |-> "absent", id |-> 0, q |-> Whole(0)]
LNum(q) == [t |-> "num", id |-> 0, q |-> q]
LTensor(i, q) == [t |-> "tensor", id |-> i, q |-> q]

NoLogs == [k \in LKeys |-> LAbsent]

\* The batch logs the training loop passes to onBatchEnd: the batch size, a
\* tensor-valued loss and a number-valued accuracy, each of which may be
\* missing.
BatchLogs ==
  { [k \in LKeys |-> CASE k = "size" -> sz [] k = "loss" -> lo
                       [] k = "acc" -> ac [] OTHER -> LAbsent] :
      sz \in {LAbsent, LNum(Whole(1)), LNum(Whole(2))},
      lo \in {LAbsent, LTensor(0, Whole(1)), LTensor(0, Whole(3))},
      ac \in {LAbsent, LNum(Whole(1))} }

\* The logs object onEpochEnd is called with.
EpochLogs ==
  { NoLogs,
    [NoLogs EXCEPT !["val_loss"] = LNum(Whole(5))],
    [NoLogs EXCEPT !["val_loss"] = LNum(Whole(5)), !["loss"] = LNum(Whole(7))] }

MetricsChoices == { {"loss", "acc", "val_loss"}, {"acc"} }

\* The kinds of the values of logs in key order, as maybeYieldOnBatch sees them.
RECURSIVE KindsFrom(_, _)
KindsFrom(logs, j) ==
  IF j > Len(LKeyOrder) THEN <<>>
  ELSE (IF logs[LKeyOrder[j]].t = "absent" THEN <<>>
        ELSE << logs[LKeyOrder[j]].t >>) \o KindsFrom(logs, j + 1)

\* const batchSize = logs['size'] == null ? 0 : logs['size'] as number;
BatchSizeOf(logs) == IF logs["size"].t = "absent" THEN 0 ELSE logs["size"].q.n

\* value * batchSize, the term added to the running total
WeightedTermM(value, batchSize) == value
WeightedTerm(value, batchSize) == RMul(value, Whole(batchSize))

\* this.seen = 0 in onEpochBegin
SeenAtEpochBegin(old) == 0

NewTensor(kind, key) == [kind |-> kind, key |-> key, disp |-> 0]

LoggerInit ==
  /\ seen = 0
  /\ totals = NoLogs
  /\ metrics \in MetricsChoices
  /\ lpc = "new"
  /\ blogs = NoLogs
  /\ elogs = NoLogs
  /\ elogsNull = TRUE
  /\ egiven = NoLogs
  /\ ltensors = <<>>
  /\ lbadRead = FALSE
  /\ lbatches = <<>>
  /\ lepochs = 0

\* BaseLogger.onTrainBegin: this.autoYielder = new ModelTrainingYielder()
BaseLogger_onTrainBegin ==
  /\ lpc = "new"
  /\ lpc' = "train"
  /\ batchCount' = 0
  /\ batchDurationsMillis' = <<>>
  /\ autoYieldEveryBatches' = NULL
  /\ batchStartMillis' = 0
  /\ ycalls' = 0
  /\ UNCHANGED <<lastYieldBatchCount, ypc, ylogs, measured, yieldTrace>>
  /\ UNCHANGED <<seen, totals, metrics, blogs, elogs, elogsNull, egiven,
                 ltensors, lbadRead, lbatches, lepochs>>
  /\ UNCHANGED notL

\* BaseLogger.onEpochBegin.  The logs object of the previous epoch belongs
\* to the caller and is not followed any further.
BaseLogger_onEpochBegin ==
  /\ lpc \in {"train", "epochEnded"}
  /\ lepochs < MaxLoggerEpochs
  /\ seen' = SeenAtEpochBegin(seen)
  /\ totals' = NoLogs
  /\ lpc' = "epoch"
  /\ lbatches' = <<>>
  /\ lepochs' = lepochs + 1
  /\ elogs' = NoLogs
  /\ elogsNull' = TRUE
  /\ egiven' = NoLogs
  /\ blogs' = NoLogs
  /\ UNCHANGED <<metrics, ltensors, lbadRead>>
  /\ UNCHANGED yvars
  /\ UNCHANGED notL

\* BaseLogger.onBatchEnd(batch, logs) up to the first await inside
\* this.autoYielder.maybeYieldOnBatch(logs); a null logs is the empty logs.
BaseLogger_onBatchEnd(logs) ==
  /\ lpc = "epoch"
  /\ Len(lbatches) < MaxLoggerBatches
  /\ MaybeYieldOnBatchBody(KindsFrom(logs, 1))
  /\ blogs' = logs
  /\ lpc' = "batch"
  /\ UNCHANGED <<seen, totals, metrics, elogs, elogsNull, egiven, ltensors,
                 lbadRead, lbatches, lepochs>>
  /\ UNCHANGED notL

\* Lines 315-337 for the keys from position j on, on the state
\* st = [tot, ts, bad]: a number is added to the number total; a tensor gives
\* a new total tensor add(old total or getScalar(0), mul(value, batchSize)),
\* after which the old total tensor, if any, is disposed.
RECURSIVE AccumulateFrom(_, _, _, _)
AccumulateFrom(logs, batchSize, j, st) ==
  IF j > Len(LKeyOrder) THEN st
  ELSE LET key == LKeyOrder[j]
           value == logs[key]
           old == st.tot[key]
           base == IF old.t = "absent" THEN Whole(0) ELSE old.q
           sum == RAdd(base, WeightedTerm(value.q, batchSize))
       IN IF value.t = "absent"
            THEN AccumulateFrom(logs, batchSize, j + 1, st)
          ELSE IF value.t = "num"
            THEN AccumulateFrom(logs, batchSize, j + 1,
                   [st EXCEPT !.tot[key] = LNum(sum)])
          ELSE AccumulateFrom(logs, batchSize, j + 1,
                 [tot |-> [st.tot EXCEPT ![key] = LTensor(Len(st.ts) + 1, sum)],
                  ts |-> IF old.t = "tensor"
                           THEN [Append(st.ts, NewTensor("total", key))
                                   EXCEPT ![old.id].disp = @ + 1]
                           ELSE Append(st.ts, NewTensor("total", key)),
                  bad |-> st.bad \/ (old.t = "tensor" /\ st.ts[old.id].disp > 0)])

\* BaseLogger.onBatchEnd after maybeYieldOnBatch returned.
BaseLogger_onBatchEndResumes ==
  /\ lpc = "batch"
  /\ ypc = "idle"
  /\ LET batchSize == BatchSizeOf(blogs)
         r == AccumulateFrom(blogs, batchSize, 1,
                             [tot |-> totals, ts |-> ltensors, bad |-> lbadRead])
     IN /\ seen' = seen + batchSize
        /\ totals' = r.tot
        /\ ltensors' = r.ts
        /\ lbadRead' = r.bad
  /\ lbatches' = Append(lbatches, blogs)
  /\ lpc' = "epoch"
  /\ UNCHANGED <<metrics, blogs, elogs, elogsNull, egiven, lepochs>>
  /\ UNCHANGED yvars
  /\ UNCHANGED notL

RECURSIVE AverageFromM(_, _, _, _, _)
AverageFromM(tot, ms, sn, j, st) ==
  IF j > Len(LKeyOrder) THEN st
  ELSE LET key == LKeyOrder[j]
           total == tot[key]
       IN IF total.t = "absent"
            THEN AverageFromM(tot, ms, sn, j + 1, st)
          ELSE IF total.t = "num"
            THEN AverageFromM(tot, ms, sn, j + 1,
                   [st EXCEPT !.logs[key] = LNum(RDiv(total.q, Whole(sn)))])
          ELSE AverageFromM(tot, ms, sn, j + 1,
                 [logs |-> [st.logs EXCEPT ![key] =
                              LTensor(Len(st.ts) + 1,
                                      RMul(RDiv(Whole(1), Whole(sn)), total.q))],
                  ts |-> [Append(st.ts, NewTensor("average", key))
                            EXCEPT ![total.id].disp = @ + 1],
                  bad |-> st.bad \/ st.ts[total.id].disp > 0])

\* Lines 342-356 for the metrics from position j on, on the state
\* st = [logs, ts, bad]: a number total is divided by seen; a tensor total
\* gives the kept tensor mul(div(1, seen), total) and is then disposed.
RECURSIVE AverageFrom(_, _, _, _, _)
AverageFrom(tot, ms, sn, j, st) ==
  IF j > Len(LKeyOrder) THEN st
  ELSE LET key == LKeyOrder[j]
           total == tot[key]
       IN IF key \notin ms \/ total.t = "absent"
            THEN AverageFrom(tot, ms, sn, j + 1, st)
          ELSE IF total.t = "num"
            THEN AverageFrom(tot, ms, sn, j + 1,
                   [st EXCEPT !.logs[key] = LNum(RDiv(total.q, Whole(sn)))])
          ELSE AverageFrom(tot, ms, sn, j + 1,
                 [logs |-> [st.logs EXCEPT ![key] =
                              LTensor(Len(st.ts) + 1,
                                      RMul(RDiv(Whole(1), Whole(sn)), total.q))],
                  ts |-> [Append(st.ts, NewTensor("average", key))
                            EXCEPT ![total.id].disp = @ + 1],
                  bad |-> st.bad \/ st.ts[total.id].disp > 0])

\* BaseLogger.onEpochEnd(epoch, logs); isNull: logs is null or undefined.
BaseLogger_onEpochEnd(logs, isNull) ==
  /\ lpc = "epoch"
  /\ isNull => logs = NoLogs
  /\ LET r == IF isNull
                THEN [logs |-> logs, ts |-> ltensors, bad |-> lbadRead]
                ELSE AverageFrom(totals, metrics, seen, 1,
                                 [logs |-> logs, ts |-> ltensors, bad |-> lbadRead])
     IN /\ elogs' = r.logs
        /\ ltensors' = r.ts
        /\ lbadRead' = r.bad
  /\ elogsNull' = isNull
  /\ egiven' = logs
  /\ lpc' = "epochEnded"
  /\ UNCHANGED <<seen, totals, metrics, blogs, lbatches, lepochs>>
  /\ UNCHANGED yvars
  /\ UNCHANGED notL

\* Date.now() - batchStartMillis seen by the yielder of the BaseLogger
LoggerDurations == {40}

LoggerNext ==
  \/ BaseLogger_onTrainBegin
  \/ BaseLogger_onEpochBegin
  \/ \E logs \in BatchLogs : BaseLogger_onBatchEnd(logs)
  \/ DataResolved
  \/ \E dt \in LoggerDurations : CalibrationFrame(dt)
  \/ SteadyFrame
  \/ BaseLogger_onBatchEndResumes
  \/ \E logs \in EpochLogs, isNull \in BOOLEAN : BaseLogger_onEpochEnd(logs, isNull)

----------------------------------------------------------------------------
\* CustomCallback

UKeys == {"loss", "acc"}
UKinds == {"absent", "num", "tensor"}
ULogs == [UKeys -> UKinds]
NoULogs == [k \in UKeys |-> "absent"]

\* The configurations a CustomCallback is built from, as the set of hooks
\* that have a user function.
UConfigs == { {}, {"onEpochEnd"}, {"onBatchEnd", "onTrainBegin"},
              {"onBatchBegin", "onEpochBegin", "onEpochEnd", "onTrainEnd"},
              Events }

\* resolveScalarsInLogs(logs) of logs.ts: every pending Scalar of logs is
\* replaced, in place, by the number it resolves to.
ResolveScalarsInLogs(logs) ==
  [k \in UKeys |-> IF logs[k] = "tensor" THEN "num" ELSE logs[k]]

\* if (this.epochBegin != null) { await resolveScalarsInLogs(logs); ... }:
\* where a hook goes first, given whether its user function is defined.
FirstStepM(defined) == IF defined THEN "invoke" ELSE "idle"
FirstStep(defined) == IF defined THEN "resolving" ELSE "idle"

NoObs == [hook |-> "none", logs |-> NoULogs, given |-> NoULogs]

\* new CustomCallback(config)
CustomInit ==
  /\ uconfig \in UConfigs
  /\ uhook = "none"
  /\ upc = "idle"
  /\ ulogs = NoULogs
  /\ ulogsNull = TRUE
  /\ ugiven = NoULogs
  /\ uobs = NoObs

\* The CustomCallback of a specification that does not use it.
CustomIdle ==
  /\ uconfig = {}
  /\ uhook = "none"
  /\ upc = "idle"
  /\ ulogs = NoULogs
  /\ ulogsNull = TRUE
  /\ ugiven = NoULogs
  /\ uobs = NoObs

\* CustomCallback.onEpochBegin .. onTrainEnd called with logs (isNull: logs
\* is null or undefined), up to the first await.
CustomHook(ev, logs, isNull) ==
  /\ upc = "idle"
  /\ isNull => logs = NoULogs
  /\ uhook' = ev
  /\ ulogs' = logs
  /\ ulogsNull' = isNull
  /\ ugiven' = logs
  /\ upc' = FirstStep(ev \in uconfig)
  /\ UNCHANGED <<uconfig, uobs>>
  /\ UNCHANGED notU

Custom_onEpochBegin(logs, isNull) == CustomHook("onEpochBegin", logs, isNull)
Custom_onEpochEnd(logs, isNull) == CustomHook("onEpochEnd", logs, isNull)
Custom_onBatchBegin(logs, isNull) == CustomHook("onBatchBegin", logs, isNull)
Custom_onBatchEnd(logs, isNull) == CustomHook("onBatchEnd", logs, isNull)
Custom_onTrainBegin(logs, isNull) == CustomHook("onTrainBegin", logs, isNull)
Custom_onTrainEnd(logs, isNull) == CustomHook("onTrainEnd", logs, isNull)

\* await resolveScalarsInLogs(logs) completes.
ScalarsResolved ==
  /\ upc = "resolving"
  /\ ulogs' = ResolveScalarsInLogs(ulogs)
  /\ upc' = "invoke"
  /\ UNCHANGED <<uconfig, uhook, ulogsNull, ugiven, uobs>>
  /\ UNCHANGED notU

\* The user function of the hook is called with logs.
UserFunctionCalled ==
  /\ upc = "invoke"
  /\ uobs' = [hook |-> uhook, logs |-> ulogs, given |-> ugiven]
  /\ upc' = "user"
  /\ UNCHANGED <<uconfig, uhook, ulogs, ulogsNull, ugiven>>
  /\ UNCHANGED notU

\* The promise of the user function resolves and the hook returns.
UserFunctionReturns ==
  /\ upc = "user"
  /\ upc' = "idle"
  /\ UNCHANGED <<uconfig, uhook, ulogs, ulogsNull, ugiven, uobs>>
  /\ UNCHANGED notU

CustomNext ==
  \/ \E logs \in ULogs, isNull \in BOOLEAN : Custom_onEpochBegin(logs, isNull)
  \/ \E logs \in ULogs, isNull \in BOOLEAN : Custom_onEpochEnd(logs, isNull)
  \/ \E logs \in ULogs, isNull \in BOOLEAN : Custom_onBatchBegin(logs, isNull)
  \/ \E logs \in ULogs, isNull \in BOOLEAN : Custom_onBatchEnd(logs, isNull)
  \/ \E logs \in ULogs, isNull \in BOOLEAN : Custom_onTrainBegin(logs, isNull)
  \/ \E logs \in ULogs, isNull \in BOOLEAN : Custom_onTrainEnd(logs, isNull)
  \/ ScalarsResolved
  \/ UserFunctionCalled
  \/ UserFunctionReturns

----------------------------------------------------------------------------
\* Model.save and loadModel through an IOHandler

\* Bound of the save / load specification
MaxSaves == 2             \* Model.save calls

\* Layers as the tests configure them.
DenseLayer(name, units, useBias, trainable, activation) ==
  [cls |-> "Dense", name |-> name, units |-> units, useBias |-> useBias,
   trainable |-> trainable, activation |-> activation]
FlattenLayer(name) ==
  [cls |-> "Flatten", name |-> name, units |-> 0, useBias |-> FALSE,
   trainable |-> TRUE, activation |-> "linear"]

\* The models of the tests: 'Saving all weights succeeds', 'Saving only
\* trainable weights succeeds', 'Sequential model, Local storage',
\* 'Functional model, IndexedDB'; and the second with its layers' trainable
\* flags exchanged.
ModelAllWeights ==
  [cls |-> "Sequential", inputShape |-> <<5>>,
   layers |-> << DenseLayer("dense_1", 3, TRUE, TRUE, "linear") >>]
ModelFrozenFirst ==
  [cls |-> "Sequential", inputShape |-> <<5>>,
   layers |-> << DenseLayer("dense_1", 3, TRUE, FALSE, "linear"),
                 DenseLayer("dense_2", 2, TRUE, TRUE, "linear") >>]
ModelFrozenLast ==
  [cls |-> "Sequential", inputShape |-> <<5>>,
   layers |-> << DenseLayer("dense_1", 3, TRUE, TRUE, "linear"),
                 DenseLayer("dense_2", 2, TRUE, FALSE, "linear") >>]
ModelLocalStorage ==
  [cls |-> "Sequential", inputShape |-> <<2>>,
   layers |-> << DenseLayer("dense_1", 2, TRUE, TRUE, "relu"),
                 DenseLayer("dense_2", 1, FALSE, TRUE, "linear") >>]
ModelIndexedDB ==
  [cls |-> "Model", inputShape |-> <<2, 2>>,
   layers |-> << FlattenLayer("flatten_1"),
                 DenseLayer("dense_1", 2, TRUE, TRUE, "linear") >>]
SaveModels == {ModelAllWeights, ModelFrozenFirst, ModelFrozenLast,
               ModelLocalStorage, ModelIndexedDB}
WeightSeeds == {1, 2}     \* two sets of weight values; 0 is a fresh model

RECURSIVE Prod(_)
Prod(shape) == IF shape = <<>> THEN 1 ELSE Head(shape) * Prod(Tail(shape))

\* build(): the size of the last axis each layer is applied to.
RECURSIVE InDim(_, _)
InDim(m, i) ==
  IF i = 1 THEN Prod(m.inputShape)
  ELSE IF m.layers[i - 1].cls = "Dense" THEN m.layers[i - 1].units
  ELSE InDim(m, i - 1)

\* The float32 bit pattern of element i of weight number k: four bytes that
\* differ from each other, from element to element and from seed to seed.
Float32Bits(seed, k, i) ==
  LET b(j) == (seed * 31 + k * 17 + i * 7 + j * 3) % 128
  IN b(0) + 256 * b(1) + 65536 * b(2) + 16777216 * b(3)

Weight(layer, var, shape, seed, k) ==
  [name |-> <<layer.name, var>>, shape |-> shape, dtype |-> "float32",
   trainable |-> layer.trainable,
   data |-> [i \in 1..Prod(shape) |-> Float32Bits(seed, k, i)]]

\* The weights a layer declares, in declaration order: kernel, then bias.
LayerWeights(m, i, seed) ==
  LET layer == m.layers[i]
  IN IF layer.cls # "Dense" THEN <<>>
     ELSE << Weight(layer, "kernel", <<InDim(m, i), layer.units>>, seed,
                    2 * i) >>
          \o (IF layer.useBias
                THEN << Weight(layer, "bias", <<layer.units>>, seed,
                               2 * i + 1) >>
                ELSE <<>>)

RECURSIVE WeightsFrom(_, _, _)
WeightsFrom(m, i, seed) ==
  IF i > Len(m.layers) THEN <<>>
  ELSE LayerWeights(m, i, seed) \o WeightsFrom(m, i + 1, seed)

\* A built model: its configuration and its weights in declaration order.
BuiltModel(m, seed) ==
  [cls |-> m.cls, inputShape |-> m.inputShape, layers |-> m.layers,
   weights |-> WeightsFrom(m, 1, seed)]

\* model.toJSON(null, false): class-name tags and snake-case config entries.
LayerToJSON(layer) ==
  IF layer.cls = "Dense"
    THEN [class_name |-> "Dense",
          config |-> [name |-> layer.name, units |-> layer.units,
                      use_bias |-> layer.useBias,
                      trainable |-> layer.trainable,
                      activation |-> layer.activation]]
    ELSE [class_name |-> layer.cls,
          config |-> [name |-> layer.name, trainable |-> layer.trainable]]
ToJSON(m) ==
  [class_name |-> m.cls,
   config |-> [batch_input_shape |-> <<NULL>> \o m.inputShape,
               layers |-> [i \in 1..Len(m.layers) |->
                             LayerToJSON(m.layers[i])]]]

\* Deserialization keyed by the class-name tag; the weights of the new model
\* are freshly initialized.
LayerFromJSON(j) ==
  IF j.class_name = "Dense"
    THEN DenseLayer(j.config.name, j.config.units, j.config.use_bias,
                    j.config.trainable, j.config.activation)
    ELSE FlattenLayer(j.config.name)
FromJSON(j) ==
  BuiltModel([cls |-> j.class_name,
              inputShape |-> Tail(j.config.batch_input_shape),
              layers |-> [i \in 1..Len(j.config.layers) |->
                            LayerFromJSON(j.config.layers[i])]], 0)

\* getNamedWeights(config): every weight, or with trainableOnly the
\* trainable ones, in declaration order.
KeepsWeightM(w, trainableOnly) == TRUE
KeepsWeight(w, trainableOnly) == ~trainableOnly \/ w.trainable
RECURSIVE NamedWeightsFrom(_, _, _)
NamedWeightsFrom(ws, i, trainableOnly) ==
  IF i > Len(ws) THEN <<>>
  ELSE (IF KeepsWeight(ws[i], trainableOnly) THEN <<ws[i]>> ELSE <<>>)
       \o NamedWeightsFrom(ws, i + 1, trainableOnly)
GetNamedWeightsM(m, trainableOnly) ==
  LET ws == NamedWeightsFrom(m.weights, 1, trainableOnly)
  IN [i \in 1..Len(ws) |-> ws[Len(ws) + 1 - i]]
GetNamedWeights(m, trainableOnly) ==
  NamedWeightsFrom(m.weights, 1, trainableOnly)

\* The four little-endian bytes of a float32 and back.
BytesOf(v) ==
  << v % 256, (v \div 256) % 256, (v \div 65536) % 256,
     (v \div 16777216) % 256 >>
ValueAtM(bytes, o) ==
  bytes[o + 4] + 256 * bytes[o + 3] + 65536 * bytes[o + 2]
    + 16777216 * bytes[o + 1]
ValueAt(bytes, o) ==
  bytes[o + 1] + 256 * bytes[o + 2] + 65536 * bytes[o + 3]
    + 16777216 * bytes[o + 4]

RECURSIVE DataBytes(_, _)
DataBytes(data, i) ==
  IF i > Len(data) THEN <<>> ELSE BytesOf(data[i]) \o DataBytes(data, i + 1)

RECURSIVE ConcatBytes(_, _)
ConcatBytes(ws, i) ==
  IF i > Len(ws) THEN <<>>
  ELSE DataBytes(ws[i].data, 1) \o ConcatBytes(ws, i + 1)

\* encodeWeights: one {name, shape, dtype} per weight and all bytes in one
\* buffer.
EncodeWeights(ws) ==
  [specs |-> [i \in 1..Len(ws) |->
                [name |-> ws[i].name, shape |-> ws[i].shape,
                 dtype |-> ws[i].dtype]],
   data |-> ConcatBytes(ws, 1)]

\* decodeWeights: the byte offset of weight i and its values.
RECURSIVE OffsetOf(_, _)
OffsetOf(specs, i) ==
  IF i = 1 THEN 0
  ELSE OffsetOf(specs, i - 1) + 4 * Prod(specs[i - 1].shape)
DecodeWeights(specs, bytes) ==
  [i \in 1..Len(specs) |->
     [name |-> specs[i].name, shape |-> specs[i].shape,
      dtype |-> specs[i].dtype,
      data |-> [e \in 1..Prod(specs[i].shape) |->
                  ValueAt(bytes, OffsetOf(specs, i) + 4 * (e - 1))]]]

\* The artifacts Model.save hands to handler.save.
ArtifactsOf(m, trainableOnly) ==
  LET enc == EncodeWeights(GetNamedWeights(m, trainableOnly))
  IN [modelTopology |-> ToJSON(m), weightSpecs |-> enc.specs,
      weightData |-> enc.data]
NoModel == [cls |-> "", inputShape |-> <<>>, layers |-> <<>>]
NoArtifacts == [modelTopology |-> ToJSON(NoModel), weightSpecs |-> <<>>,
                weightData |-> <<>>]

\* loadModel: the model of the topology with, in every weight slot, the
\* decoded weight of that name; loading fails when a slot has no decoded
\* weight of its name, shape and dtype.
Matches(slot, d) ==
  d.name = slot.name /\ d.shape = slot.shape /\ d.dtype = slot.dtype
LoadFrom(artifacts) ==
  LET fresh == FromJSON(artifacts.modelTopology)
      decoded == DecodeWeights(artifacts.weightSpecs, artifacts.weightData)
      found(slot) == \E k \in 1..Len(decoded) : Matches(slot, decoded[k])
      pick(slot) == CHOOSE k \in 1..Len(decoded) : Matches(slot, decoded[k])
  IN IF \A i \in 1..Len(fresh.weights) : found(fresh.weights[i])
       THEN [ok |-> TRUE,
             model |-> [fresh EXCEPT !.weights =
                          [i \in 1..Len(fresh.weights) |->
                             [fresh.weights[i] EXCEPT !.data =
                                decoded[pick(fresh.weights[i])].data]]]]
       ELSE [ok |-> FALSE, model |-> fresh]
NotLoaded == [ok |-> FALSE, model |-> BuiltModel(NoModel, 0)]

\* if (handler.save == null) throw ...
Handlers == {"withSave", "empty"}
HasSaveM(handler) == TRUE
HasSave(handler) == handler = "withSave"

\* Error messages are sequences of pieces of text; 96 is the character
\* code of the backquote.
NoSaveMessage ==
  << "Model.save() cannot proceed because the IOHandler ",
     "provided does not have the ", 96, "save", 96, " attribute defined." >>
NoError == <<>>

SaveInit ==
  /\ smodel \in {BuiltModel(m, seed) : m \in SaveModels, seed \in WeightSeeds}
  /\ shandler = "withSave"
  /\ sconfig = FALSE
  /\ spc = "idle"
  /\ serror = NoError
  /\ nsaves = 0
  /\ hsaves = <<>>
  /\ store = NoArtifacts
  /\ loaded = NotLoaded

\* The model of a specification that saves nothing.
SaveIdle ==
  /\ smodel = BuiltModel(ModelAllWeights, 1)
  /\ shandler = "withSave"
  /\ sconfig = FALSE
  /\ spc = "idle"
  /\ serror = NoError
  /\ nsaves = 0
  /\ hsaves = <<>>
  /\ store = NoArtifacts
  /\ loaded = NotLoaded

\* model.save(handler, {trainableOnly}) up to its first await.
Model_save(handler, trainableOnly) ==
  /\ spc = "idle"
  /\ nsaves < MaxSaves
  /\ nsaves' = nsaves + 1
  /\ shandler' = handler
  /\ sconfig' = trainableOnly
  /\ hsaves' = <<>>
  /\ IF HasSave(handler)
       THEN spc' = "encoding" /\ serror' = NoError
       ELSE spc' = "rejected" /\ serror' = NoSaveMessage
  /\ UNCHANGED <<smodel, store, loaded>>
  /\ UNCHANGED notS

\* await io.encodeWeights(...) completes; handler.save(artifacts) is called
\* (calling the missing save of a handler throws a TypeError).
HandlerSaveCalled ==
  /\ spc = "encoding"
  /\ IF shandler = "withSave"
       THEN /\ hsaves' = Append(hsaves, ArtifactsOf(smodel, sconfig))
            /\ spc' = "saving"
            /\ serror' = serror
       ELSE /\ hsaves' = hsaves
            /\ spc' = "rejected"
            /\ serror' = <<"TypeError: handler.save is not a function">>
  /\ UNCHANGED <<smodel, shandler, sconfig, nsaves, store, loaded>>
  /\ UNCHANGED notS

\* The promise of handler.save resolves: the handler has persisted the
\* artifacts.
HandlerSaveResolves ==
  /\ spc = "saving"
  /\ store' = hsaves[Len(hsaves)]
  /\ spc' = "resolved"
  /\ UNCHANGED <<smodel, shandler, sconfig, serror, nsaves, hsaves, loaded>>
  /\ UNCHANGED notS

\* The promise of handler.save rejects.
HandlerSaveRejects ==
  /\ spc = "saving"
  /\ spc' = "rejected"
  /\ serror' = <<"handler.save failed">>
  /\ UNCHANGED <<smodel, shandler, sconfig, nsaves, hsaves, store, loaded>>
  /\ UNCHANGED notS

\* The caller of save() goes on after the promise settled.
SaveSettled ==
  /\ spc \in {"resolved", "rejected"}
  /\ spc' = "idle"
  /\ UNCHANGED <<smodel, shandler, sconfig, serror, nsaves, hsaves, store,
                 loaded>>
  /\ UNCHANGED notS

\* loadModel(handler) of what the handler persisted.
LoadModel ==
  /\ spc = "idle"
  /\ store # NoArtifacts
  /\ loaded' = LoadFrom(store)
  /\ UNCHANGED <<smodel, shandler, sconfig, spc, serror, nsaves, hsaves,
                 store>>
  /\ UNCHANGED notS

SaveNext ==
  \/ \E handler \in Handlers, trainableOnly \in BOOLEAN :
       Model_save(handler, trainableOnly)
  \/ HandlerSaveCalled
  \/ HandlerSaveResolves
  \/ HandlerSaveRejects
  \/ SaveSettled
  \/ LoadModel

----------------------------------------------------------------------------
\* isModelSequentialLike on the graph of a Container

\* Bound of the graph specification
MaxGraphNodes == 4        \* nodes of a model

\* The elements of a set of numbers in increasing order.
RECURSIVE SortedSeq(_)
SortedSeq(S) ==
  IF S = {} THEN <<>>
  ELSE LET m == CHOOSE x \in S : \A y \in S : x <= y
       IN <<m>> \o SortedSeq(S \ {m})

\* A model graph: nodes 1..n in the order they were created; inbound[k] the
\* nodes whose output node k consumes (none for the node of an input layer);
\* lay[k] the layer node k belongs to, named by the first node made by
\* applying it (a layer applied more than once is shared); foreign: the
\* layers have also been applied outside this model, so their inboundNodes
\* start with a node (0) that is not a node of it.
RECURSIVE InboundsUpTo(_)
InboundsUpTo(k) ==
  IF k = 0 THEN { <<>> }
  ELSE { Append(f, S) : f \in InboundsUpTo(k - 1), S \in SUBSET (1..(k - 1)) }
RECURSIVE LayersUpTo(_)
LayersUpTo(k) ==
  IF k = 0 THEN { <<>> }
  ELSE UNION { { Append(l, x) : x \in {k} \cup { j \in 1..(k - 1) : l[j] = j } } :
               l \in LayersUpTo(k - 1) }
GraphsOf(n) ==
  LET fits(inb, l) == \A k \in 1..n :
                        inb[k] = {} => \A j \in 1..n : l[j] = k <=> j = k
  IN { g \in [n : {n}, inbound : InboundsUpTo(n), lay : LayersUpTo(n),
              foreign : BOOLEAN] :
         fits(g.inbound, g.lay) }
Graphs == UNION { GraphsOf(n) : n \in 1..MaxGraphNodes }

\* The depth of a node: 0 for a node nothing consumes (an output), otherwise
\* one more than the deepest of its consumers.
RECURSIVE DepthOf(_, _)
DepthOf(g, k) ==
  LET consumers == { j \in (k + 1)..g.n : k \in g.inbound[j] }
  IN IF consumers = {} THEN 0
     ELSE 1 + MaxOf({ DepthOf(g, j) : j \in consumers })

\* model.nodesByDepth in the order for..in visits its keys (increasing
\* depth), and node.inboundLayers, model.layers, layer.inboundNodes.
NodesByDepth(g) ==
  LET top == MaxOf({ DepthOf(g, k) : k \in 1..g.n })
  IN [d \in 1..(top + 1) |->
        SortedSeq({ k \in 1..g.n : DepthOf(g, k) = d - 1 })]
InboundLayers(g, k) ==
  LET ins == SortedSeq(g.inbound[k])
  IN [i \in 1..Len(ins) |-> g.lay[ins[i]]]
LayersOf(g) == SortedSeq({ g.lay[k] : k \in 1..g.n })
InboundNodesOf(g, layer) ==
  (IF g.foreign /\ g.inbound[layer] # {} THEN <<0>> ELSE <<>>)
    \o SortedSeq({ k \in 1..g.n : g.lay[k] = layer })

\* if (depthNodes.length > 1 ||
\*     depthNodes.length === 1 && depthNodes[0].inboundLayers.length > 1)
BucketBreaksM(g, depthNodes) == Len(depthNodes) > 1
BucketBreaks(g, depthNodes) ==
  \/ Len(depthNodes) > 1
  \/ Len(depthNodes) = 1 /\ Len(InboundLayers(g, depthNodes[1])) > 1

\* nodes.indexOf(node) !== -1
IndexOfFound(seq, x) == \E i \in 1..Len(seq) : seq[i] = x

\* The loop over layer.inboundNodes from its i-th node on, with the value
\* flag has there: TRUE when it sets sequentialLike = false.
RECURSIVE FindsSharedM(_, _, _, _)
FindsSharedM(inboundNodes, visited, i, flag) ==
  IF i > Len(inboundNodes) THEN flag
  ELSE FindsSharedM(inboundNodes, visited, i + 1,
                    flag \/ IndexOfFound(visited, inboundNodes[i]))
RECURSIVE FindsShared(_, _, _, _)
FindsShared(inboundNodes, visited, i, flag) ==
  IF i > Len(inboundNodes) THEN FALSE
  ELSE IF IndexOfFound(visited, inboundNodes[i])
    THEN IF flag THEN TRUE
         ELSE FindsShared(inboundNodes, visited, i + 1, TRUE)
    ELSE FindsShared(inboundNodes, visited, i + 1, flag)

\* The graph a Sequential builds: add(layer) applies the layer to the output
\* of the layer added before it, so each node consumes the node before it;
\* nothing keeps a layer from being added a second time.
IsSequentialStack(g) ==
  /\ g.inbound[1] = {}
  /\ \A k \in 2..g.n : g.inbound[k] = {k - 1}

\* The classes a model with the graph g can be an instance of.
InstancesOf(g) ==
  {"Model"} \cup (IF IsSequentialStack(g) THEN {"Sequential"} ELSE {})

\* The earlier version of isModelSequentialLike: true for an instance of
\* Sequential without a look at the graph, else the result of the two loops.
EarlierSequentialLike(instance, byGraph) ==
  IF instance = "Sequential" THEN TRUE ELSE byGraph

\* The result of the version of isModelSequentialLike that printSummary of
\* the given version calls.
SequentialLikeOf(version, instance, byGraph) ==
  IF version = "earlier" THEN EarlierSequentialLike(instance, byGraph)
  ELSE byGraph

GraphInit ==
  /\ qmodel \in Graphs
  /\ qpc = "depths"
  /\ sequentialLike = TRUE
  /\ nodes = <<>>
  /\ qdepth = 1
  /\ qlayer = 1
  /\ qinstance \in InstancesOf(qmodel)

\* The model of a specification that classifies nothing.
GraphIdle ==
  /\ qmodel = [n |-> 1, inbound |-> <<{}>>, lay |-> <<1>>, foreign |-> FALSE]
  /\ qpc = "depths"
  /\ sequentialLike = TRUE
  /\ nodes = <<>>
  /\ qdepth = 1
  /\ qlayer = 1
  /\ qinstance = "Model"

\* One iteration of for (const depthNodes of nodesByDepth).
VisitDepth ==
  /\ qpc = "depths"
  /\ qdepth <= Len(NodesByDepth(qmodel))
  /\ LET depthNodes == NodesByDepth(qmodel)[qdepth]
     IN IF BucketBreaks(qmodel, depthNodes)
          THEN /\ sequentialLike' = FALSE
               /\ qpc' = "done"
               /\ UNCHANGED <<nodes, qdepth>>
          ELSE /\ nodes' = nodes \o depthNodes
               /\ qdepth' = qdepth + 1
               /\ UNCHANGED <<sequentialLike, qpc>>
  /\ UNCHANGED <<qmodel, qlayer, qinstance>>
  /\ UNCHANGED notQ

\* The first loop ends without a break; if (sequentialLike) is entered.
DepthLoopEnds ==
  /\ qpc = "depths"
  /\ qdepth > Len(NodesByDepth(qmodel))
  /\ qpc' = "layers"
  /\ UNCHANGED <<qmodel, sequentialLike, nodes, qdepth, qlayer, qinstance>>
  /\ UNCHANGED notQ

\* One iteration of for (const layer of model.layers).
SearchLayer ==
  /\ qpc = "layers"
  /\ qlayer <= Len(LayersOf(qmodel))
  /\ IF FindsShared(InboundNodesOf(qmodel, LayersOf(qmodel)[qlayer]), nodes,
                    1, FALSE)
       THEN /\ sequentialLike' = FALSE
            /\ qpc' = "done"
            /\ UNCHANGED qlayer
       ELSE /\ qlayer' = qlayer + 1
            /\ UNCHANGED <<sequentialLike, qpc>>
  /\ UNCHANGED <<qmodel, nodes, qdepth, qinstance>>
  /\ UNCHANGED notQ

\* The second loop ends; return sequentialLike.
LayerLoopEnds ==
  /\ qpc = "layers"
  /\ qlayer > Len(LayersOf(qmodel))
  /\ qpc' = "done"
  /\ UNCHANGED <<qmodel, sequentialLike, nodes, qdepth, qlayer, qinstance>>
  /\ UNCHANGED notQ

GraphNext ==
  \/ VisitDepth
  \/ DepthLoopEnds
  \/ SearchLayer
  \/ LayerLoopEnds

----------------------------------------------------------------------------
\* printSummary (utils/layer_utils.ts 31-99 and its earlier version)

\* Bound of the summary specification
MaxSummaryNodes == 3      \* nodes of a summarized model

\* A character of a printed line: <<what, of, index>>.  Text that comes from
\* a layer (its name and class, its output shape) or from a number is kept
\* apart by what it is of, so that two lines are equal only if they show the
\* same thing at each position.
Space == <<" ", 0, 0>>
Chars(what, of, len) == [i \in 1..len |-> <<what, of, i>>]
Repeat(c, n) == [i \in 1..n |-> c]

\* A line: either text, or one of the three count lines `label${n}`.
TextLine(text) == [label |-> "", n |-> 0, text |-> text]
CountLine(label, n) == [label |-> label, n |-> n, text |-> <<>>]

\* line.slice(0, end) for end >= 0
Slice(line, end) ==
  IF end >= Len(line) THEN line
  ELSE IF end <= 0 THEN <<>> ELSE SubSeq(line, 1, end)

\* n.toString().length
RECURSIVE NumDigits(_)
NumDigits(n) == IF n < 10 THEN 1 ELSE 1 + NumDigits(n \div 10)

\* The weights of the layers of a model: the node of an input layer has
\* none, every other layer a kernel and a bias; the weights of a frozen
\* layer are non-trainable.
SummaryWeights(g, frozen) ==
  LET ls == LayersOf(g)
      of(l) == IF g.inbound[l] = {} THEN <<>>
               ELSE << [layer |-> l, shape |-> <<l, 2>>,
                        trainable |-> l \notin frozen],
                       [layer |-> l, shape |-> <<2>>,
                        trainable |-> l \notin frozen] >>
      F[i \in 0..Len(ls)] == IF i = 0 THEN <<>> ELSE F[i - 1] \o of(ls[i])
  IN F[Len(ls)]
TrainableWeights(ws) == SelectSeq(ws, LAMBDA w : w.trainable)
NonTrainableWeights(ws) == SelectSeq(ws, LAMBDA w : ~w.trainable)

\* countParams(weights): count += weight.shape.reduce((a, b) => a * b)
CountParams(ws) ==
  LET F[i \in 0..Len(ws)] ==
        IF i = 0 THEN 0 ELSE F[i - 1] + Prod(ws[i].shape)
  IN F[Len(ws)]

\* The column positions, in hundredths: [0.45, 0.85, 1] is <<45, 85, 100>>
\* and the absolute position 30 is 3000.
NoPositions == <<>>        \* the argument was omitted
SequentialPositions == <<45, 85, 100>>
FunctionalPositions == <<33, 55, 67, 100>>

\* The positions parameter as the body of printSummary first sees it: the
\* earlier version declares the default [0.33, 0.55, 0.67, 1] in its
\* signature, the current one leaves an omitted argument undefined.
PositionsParameter(version, given) ==
  IF given = NoPositions /\ version = "earlier" THEN FunctionalPositions
  ELSE given

\* lineLength = lineLength || 65 (98); positions = positions || [...]
LineLengthOr(given, isSequentialLike) ==
  IF given # NULL THEN given ELSE IF isSequentialLike THEN 65 ELSE 98
PositionsOr(given, isSequentialLike) ==
  IF given # NoPositions THEN given
  ELSE IF isSequentialLike THEN SequentialPositions ELSE FunctionalPositions

\* if (positions[positions.length - 1] <= 1)
\*   positions = positions.map(p => Math.floor(lineLength * p));
\* The result is in characters.
ScaledPositions(pos, len) ==
  IF pos[Len(pos)] <= 100
    THEN [i \in 1..Len(pos) |-> (len * pos[i]) \div 100]
    ELSE [i \in 1..Len(pos) |-> pos[i] \div 100]

\* The header names
ToDisplay(isSequentialLike) ==
  << Chars("Layer (type)", 0, 12), Chars("Output shape", 0, 12),
     Chars("Param #", 0, 7) >>
    \o (IF isSequentialLike THEN <<>> ELSE << Chars("Connected to", 0, 12) >>)

\* printRow: the line built from the fields, from field i on.
RECURSIVE RowFrom(_, _, _, _)
RowFrom(line, fields, pos, i) ==
  IF i > Len(fields) THEN line
  ELSE LET joined == IF i > 1 THEN Slice(line, Len(line) - 1) \o <<Space>>
                     ELSE line
           added == joined \o fields[i]
           cut == IF i <= Len(pos) THEN Slice(added, pos[i]) ELSE added
           padded == IF i <= Len(pos)
                       THEN cut \o Repeat(Space, pos[i] - Len(cut))
                       ELSE cut
       IN RowFrom(padded, fields, pos, i + 1)
PrintRow(fields, pos) == TextLine(RowFrom(<<>>, fields, pos, 1))

\* printLayerSummary: the fields of the row of a layer.
LayerFields(g, ws, layer) ==
  LET outputShape == IF Len(InboundNodesOf(g, layer)) > 1
                       THEN Chars("multiple", 0, 8)
                       ELSE Chars("outputShape", layer, 8)
      count == CountParams(SelectSeq(ws, LAMBDA w : w.layer = layer))
  IN << Chars("name (className)", layer, 8 + 9 * layer), outputShape,
        Chars("countParams", count, NumDigits(count)) >>

\* The function a row of a layer is printed with: printLayerSummary calls
\* printRow(fields, positions) without a print function, so printRow uses
\* its default.
LayerRowPrintFn(supplied) == "console.log"

\* (layers.length - 1 ? '=' : '_').repeat(lineLength)
Rule(c, len) == TextLine(Repeat(<<c, 0, 0>>, len))

\* The number the 'Non-trainable params' line shows.
NonTrainableShown(version, trainableCount, nonTrainableCount) ==
  IF version = "earlier" THEN trainableCount ELSE nonTrainableCount

\* The inputs of printSummary
SummaryGraphs == UNION { GraphsOf(n) : n \in 1..MaxSummaryNodes }
LineLengths == {NULL, 40}
PositionsChoices == {NoPositions, <<1000, 2000, 3000, 4000>>}
PrintFns == {"custom", "console.log"}

Call(fn, line) == [fn |-> fn, line |-> line]

SummaryInit ==
  /\ pversion \in {"current", "earlier"}
  /\ lineLength \in LineLengths
  /\ positions \in PositionsChoices
  /\ positionsGiven = positions
  /\ printFn \in PrintFns
  /\ pfrozen \in BOOLEAN
  /\ pcompiled \in BOOLEAN
  /\ ppc = "start"
  /\ pli = 1
  /\ lines = <<>>
  /\ calls = <<>>

\* The summary of a specification that prints none.
SummaryIdle ==
  /\ pversion = "current"
  /\ lineLength = NULL
  /\ positions = NoPositions
  /\ positionsGiven = NoPositions
  /\ printFn = "console.log"
  /\ pfrozen = FALSE
  /\ pcompiled = FALSE
  /\ ppc = "start"
  /\ pli = 1
  /\ lines = <<>>
  /\ calls = <<>>

\* The weights of the summarized model: its last layer is frozen or none is.
ModelWeights ==
  SummaryWeights(qmodel,
                 IF pfrozen THEN {LayersOf(qmodel)[Len(LayersOf(qmodel))]}
                 ELSE {})

\* const sequentialLike = isModelSequentialLike(model), of the version of
\* isModelSequentialLike that belongs to the running version of printSummary.
SummarySequentialLike ==
  SequentialLikeOf(pversion, qinstance, sequentialLike)

\* isModelSequentialLike has returned: the defaults, the scaling of the
\* positions, and the three lines of the header.
PrintHeader ==
  /\ qpc = "done"
  /\ ppc = "start"
  /\ LET len == LineLengthOr(lineLength, SummarySequentialLike)
         pos == ScaledPositions(
                  PositionsOr(PositionsParameter(pversion, positions),
                              SummarySequentialLike), len)
         row == PrintRow(ToDisplay(SummarySequentialLike), pos)
     IN /\ lineLength' = len
        /\ positions' = pos
        /\ lines' = << Rule("_", len), row, Rule("=", len) >>
        /\ calls' = << Call(printFn, Rule("_", len)), Call(printFn, row),
                       Call(printFn, Rule("=", len)) >>
  /\ ppc' = "layers"
  /\ UNCHANGED <<pversion, positionsGiven, printFn, pfrozen, pcompiled, pli>>
  /\ UNCHANGED notP

\* One iteration of for (let i = 0; i < layers.length; ++i).
PrintLayer ==
  /\ ppc = "layers"
  /\ pli <= Len(LayersOf(qmodel))
  /\ LET layers == LayersOf(qmodel)
         row == PrintRow(LayerFields(qmodel, ModelWeights, layers[pli]),
                         positions)
         rule == Rule(IF pli = Len(layers) THEN "=" ELSE "_", lineLength)
     IN IF SummarySequentialLike
          THEN /\ lines' = lines \o <<row, rule>>
               /\ calls' = calls \o << Call(LayerRowPrintFn(printFn), row),
                                       Call(printFn, rule) >>
          ELSE /\ lines' = Append(lines, rule)
               /\ calls' = Append(calls, Call(printFn, rule))
  /\ pli' = pli + 1
  /\ UNCHANGED <<pversion, lineLength, positions, positionsGiven, printFn,
                 pfrozen, pcompiled, ppc>>
  /\ UNCHANGED notP

\* The loop has ended: the three counts and the closing rule; return lines.
PrintCounts ==
  /\ ppc = "layers"
  /\ pli > Len(LayersOf(qmodel))
  /\ LET collectedTrainableWeights == TrainableWeights(ModelWeights)
         trainableCount ==
           IF pcompiled    \* collectedTrainableWeights != null
             THEN CountParams(collectedTrainableWeights)
             ELSE CountParams(TrainableWeights(ModelWeights))
         nonTrainableCount == CountParams(NonTrainableWeights(ModelWeights))
         tail == << CountLine("Total params: ",
                              trainableCount + nonTrainableCount),
                    CountLine("Trainable params: ", trainableCount),
                    CountLine("Non-trainable params: ",
                              NonTrainableShown(pversion, trainableCount,
                                                nonTrainableCount)),
                    Rule("_", lineLength) >>
     IN /\ lines' = lines \o tail
        /\ calls' = calls \o [i \in 1..4 |-> Call(printFn, tail[i])]
  /\ ppc' = "done"
  /\ UNCHANGED <<pversion, lineLength, positions, positionsGiven, printFn,
                 pfrozen, pcompiled, pli>>
  /\ UNCHANGED notP

SummaryNext ==
  \/ VisitDepth
  \/ DepthLoopEnds
  \/ SearchLayer
  \/ LayerLoopEnds
  \/ PrintHeader
  \/ PrintLayer
  \/ PrintCounts

----------------------------------------------------------------------------
\* fit() with classWeight: how the classWeight option becomes a weight per
\* sample and output (exercised by the tests of fit() with classWeight)

\* Bound of the class-weight specification
MaxSamples == 2           \* samples of the training data

\* The classes of the first output (a 3-unit softmax) and of the second (a
\* 1-unit sigmoid), and the names of the outputs.
Classes == 0..2
OutputNames == <<"y1", "y2">>
ClassesOf(o) == IF o = 1 THEN Classes ELSE 0..1

\* An entry of classWeight for one output: null, or a mapping from class to
\* weight (in tenths; -1 where the mapping has no such key).
NullEntry == [isNull |-> TRUE, w |-> [c \in Classes |-> -1]]
Mapping(w0, w1, w2) ==
  [isNull |-> FALSE, w |-> [c \in Classes |-> <<w0, w1, w2>>[c + 1]]]
Entries == { NullEntry, Mapping(1, 10, 1), Mapping(1, 2, 7), Mapping(1, 9, -1) }

\* A target row of class c: [c] in the sparse encoding, the one-hot vector
\* in the other.
OneHot(c, n) == [k \in 1..n |-> IF k = c + 1 THEN 1 ELSE 0]
Sparse(c) == <<c>>
Encode(enc, c, n) == IF enc = "onehot" THEN OneHot(c, n) ELSE Sparse(c)

\* y.argMax(1) of one row: the index of its first largest element.
ArgMaxM(row) == CHOOSE k \in 0..(Len(row) - 1) : row[k + 1] = 0
ArgMax(row) ==
  CHOOSE k \in 0..(Len(row) - 1) :
    /\ \A j \in 1..Len(row) : row[j] <= row[k + 1]
    /\ \A j \in 1..k : row[j] < row[k + 1]

\* The class of a target row: the argmax index of a row with more than one
\* column, the label itself of a row with one column.
ClassIndex(row) == IF Len(row) > 1 THEN ArgMax(row) ELSE row[1]

\* The classWeight argument in each of its accepted forms, holding the
\* entries ws for the first n outputs: a list of <<key, entry>>.
AsArray(ws, n) == [form |-> "array", items |-> [i \in 1..n |-> <<"", ws[i]>>]]
AsMap(ws, n, rev) ==
  [form |-> "map",
   items |-> [i \in 1..n |->
                LET o == IF rev THEN n + 1 - i ELSE i
                IN <<OutputNames[o], ws[o]>>]]
AsBare(ws) == [form |-> "bare", items |-> << <<"", ws[1]>> >>]
NoClassWeight == [form |-> "none", items |-> <<>>]

\* The entry a name-keyed classWeight has for an output name.
EntryOfNameM(cw, name, o) == cw.items[o][2]
EntryOfName(cw, name, o) ==
  IF \E i \in 1..Len(cw.items) : cw.items[i][1] = name
    THEN cw.items[CHOOSE i \in 1..Len(cw.items) : cw.items[i][1] = name][2]
    ELSE NullEntry

\* The per-output entries a classWeight argument resolves to.
StandardizeClassWeights(cw, n) ==
  IF cw.form = "none" THEN [o \in 1..n |-> NullEntry]
  ELSE IF cw.form = "array" THEN [o \in 1..n |-> cw.items[o][2]]
  ELSE IF cw.form = "bare" THEN << cw.items[1][2] >>
  ELSE [o \in 1..n |-> EntryOfName(cw, OutputNames[o], o)]

\* The weight of each sample of one output: none (every sample counts with
\* weight 1) for a null entry, otherwise the entry's weight for the class of
\* the sample.
NullWeight(row) == 10
SampleWeight(entry, row) ==
  IF entry.isNull THEN NullWeight(row) ELSE entry.w[ClassIndex(row)]
MissesClassM(entry, ys) ==
  \E j \in 1..Len(ys) : entry.w[ClassIndex(ys[j])] = -1
MissesClass(entry, ys) ==
  /\ ~entry.isNull
  /\ \E j \in 1..Len(ys) : entry.w[ClassIndex(ys[j])] = -1

\* The training data: the classes of the samples per output and the
\* encoding of the targets of the first output.
SampleClasses(o) == [1..MaxSamples -> ClassesOf(o)]

NoWeights == <<>>

WeightsInit ==
  /\ wn \in 1..2
  /\ wentries \in [1..2 -> Entries]
  /\ wentries[2].w[2] = -1 \/ wentries[2].isNull
  /\ wn = 1 => wentries[2] = NullEntry
  /\ wenc \in {"sparse", "onehot"}
  /\ wclasses \in [1..2 -> [1..MaxSamples -> Classes]]
  /\ \A j \in 1..MaxSamples : wclasses[2][j] \in ClassesOf(2)
  /\ wn = 1 => \A j \in 1..MaxSamples : wclasses[2][j] = 0
  /\ classWeight \in {AsArray(wentries, wn), AsMap(wentries, wn, FALSE),
                      AsMap(wentries, wn, TRUE), NoClassWeight}
                       \cup (IF wn = 1 THEN {AsBare(wentries)} ELSE {})
  /\ wpc = "start"
  /\ wstd = <<>>
  /\ wo = 1
  /\ sampleWeights = <<>>
  /\ werror = <<>>

\* The class weights of a specification that trains without them.
WeightsIdle ==
  /\ wn = 1
  /\ wentries = [o \in 1..2 |-> NullEntry]
  /\ wenc = "sparse"
  /\ wclasses = [o \in 1..2 |-> [j \in 1..MaxSamples |-> 0]]
  /\ classWeight = NoClassWeight
  /\ wpc = "start"
  /\ wstd = <<>>
  /\ wo = 1
  /\ sampleWeights = <<>>
  /\ werror = <<>>

\* The targets of output o as fit() receives them.
TargetsOf(o) ==
  [j \in 1..MaxSamples |->
     IF o = 1 THEN Encode(wenc, wclasses[1][j], 3) ELSE Sparse(wclasses[2][j])]

\* fit() resolves the classWeight option to one entry per output.
ResolveClassWeight ==
  /\ wpc = "start"
  /\ wstd' = StandardizeClassWeights(classWeight, wn)
  /\ wpc' = "outputs"
  /\ UNCHANGED <<wn, wentries, wenc, wclasses, classWeight, wo,
                 sampleWeights, werror>>
  /\ UNCHANGED notW

\* The sample weights of the next output are computed from its targets.
WeighOutput ==
  /\ wpc = "outputs"
  /\ wo <= wn
  /\ ~MissesClass(wstd[wo], TargetsOf(wo))
  /\ sampleWeights' =
       Append(sampleWeights,
              [j \in 1..MaxSamples |-> SampleWeight(wstd[wo], TargetsOf(wo)[j])])
  /\ wo' = wo + 1
  /\ UNCHANGED <<wn, wentries, wenc, wclasses, classWeight, wpc, wstd, werror>>
  /\ UNCHANGED notW

\* The training data has a class the entry of the output has no weight for.
WeighOutputThrows ==
  /\ wpc = "outputs"
  /\ wo <= wn
  /\ MissesClass(wstd[wo], TargetsOf(wo))
  /\ werror' = <<"classWeight must contain all classes in the training data">>
  /\ wpc' = "thrown"
  /\ UNCHANGED <<wn, wentries, wenc, wclasses, classWeight, wstd, wo,
                 sampleWeights>>
  /\ UNCHANGED notW

\* Every output has its sample weights: training goes on with them.
WeightsReady ==
  /\ wpc = "outputs"
  /\ wo > wn
  /\ wpc' = "ready"
  /\ UNCHANGED <<wn, wentries, wenc, wclasses, classWeight, wstd, wo,
                 sampleWeights, werror>>
  /\ UNCHANGED notW

WeightsNext ==
  \/ ResolveClassWeight
  \/ WeighOutput
  \/ WeighOutputThrows
  \/ WeightsReady

----------------------------------------------------------------------------
\* Save handlers (engine/save_load.ts): toLocalStorage, toDownloadAnchors

\* Bound of the handler specification
MaxHandlerCalls == 3      \* handlers made plus handlers invoked

\* A JavaScript value given for a string parameter.
Undefined == [t |-> "undefined", s |-> ""]
Null == [t |-> "null", s |-> ""]
Str(s) == [t |-> "string", s |-> s]

\* parameter = 'default': the default replaces undefined only.
OrDefault(v, d) == IF v = Undefined THEN Str(d) ELSE v

\* !v for a value that is undefined, null or a string
Falsy(v) == v.t # "string" \/ Len(v.s) = 0

\* modelName == null || modelName.length === 0
NoModelNameM(v) == v.t # "string"
NoModelName(v) == v.t # "string" \/ Len(v.s) = 0

ValueError(message) == [type |-> "ValueError", message |-> message]
NoThrow == [type |-> "", message |-> ""]

NoHandler ==
  [kind |-> "none", modelName |-> "", modelJSONFileName |-> Undefined,
   weightsDataFileName |-> Undefined, triggerDownload |-> FALSE]
NoCall ==
  [fn |-> "none", modelName |-> Undefined, modelJSONFileName |-> Undefined,
   weightsDataFileName |-> Undefined]

\* The guards of toDownloadAnchors, in order, on the parameters after their
\* defaults: the error thrown, NoThrow if none.
DownloadGuards(modelJSONFileName, weightsDataFileName) ==
  IF Falsy(weightsDataFileName)
    THEN ValueError("Empty, null or undefined modelJSONFileName is not allowed.")
  ELSE IF Falsy(weightsDataFileName)
    THEN ValueError("Empty, null or undefined weightsDataFileName is not allowed.")
  ELSE NoThrow

\* The keys a handler of toLocalStorage writes.
ConfigKey(modelName) == modelName \o "-config"
WeightsKey(modelName) == modelName \o "-weights"

\* localStorage.setItem(key, value)
SetItem(storage, key, value) ==
  [k \in DOMAIN storage \cup {key} |-> IF k = key THEN value ELSE storage[k]]

ModelNames == {Undefined, Null, Str(""), Str("m"), Str("n")}
FileNames(name) == {Undefined, Null, Str(""), Str(name)}
EmptyStorage == [k \in {} |-> <<>>]
Anchor == [href |-> 0, download |-> Undefined, clicks |-> 0]

HandlersInit ==
  /\ ienv \in {"available", "undefined"}
  /\ localStorage = EmptyStorage
  /\ icall = NoCall
  /\ ithrown = NoThrow
  /\ ihandler = NoHandler
  /\ ipc = "idle"
  /\ iconfig = 0
  /\ modelJSONAnchor = Anchor
  /\ weightsDataAnchor = Anchor
  /\ ncalls = 0

\* The handlers of a specification that makes none.
HandlersIdle ==
  /\ ienv = "available"
  /\ localStorage = EmptyStorage
  /\ icall = NoCall
  /\ ithrown = NoThrow
  /\ ihandler = NoHandler
  /\ ipc = "idle"
  /\ iconfig = 0
  /\ modelJSONAnchor = Anchor
  /\ weightsDataAnchor = Anchor
  /\ ncalls = 0

\* toLocalStorage(modelName): throws or returns a handler.
ToLocalStorage(modelName) ==
  /\ ipc = "idle"
  /\ ncalls < MaxHandlerCalls
  /\ ncalls' = ncalls + 1
  /\ icall' = [NoCall EXCEPT !.fn = "toLocalStorage", !.modelName = modelName]
  /\ IF ienv = "undefined"
       THEN /\ ithrown' = ValueError(
                 "This browser environment does not support local storage.")
            /\ ihandler' = NoHandler
       ELSE IF NoModelName(modelName)
         THEN /\ ithrown' = ValueError(
                   "Must define a non-null, non-empty modelName.")
              /\ ihandler' = NoHandler
         ELSE /\ ithrown' = NoThrow
              /\ ihandler' = [NoHandler EXCEPT !.kind = "localStorage",
                                               !.modelName = modelName.s]
  /\ UNCHANGED <<ienv, localStorage, ipc, iconfig, modelJSONAnchor,
                 weightsDataAnchor>>
  /\ UNCHANGED notI

\* toDownloadAnchors(modelJSONAnchor, weightsDataAnchor, modelJSONFileName,
\* weightsDataFileName, triggerDownload): throws or returns a handler.
ToDownloadAnchors(jsonName, dataName, triggerDownload) ==
  /\ ipc = "idle"
  /\ ncalls < MaxHandlerCalls
  /\ ncalls' = ncalls + 1
  /\ icall' = [NoCall EXCEPT !.fn = "toDownloadAnchors",
                             !.modelJSONFileName = jsonName,
                             !.weightsDataFileName = dataName]
  /\ LET modelJSONFileName == OrDefault(jsonName, "model.json")
         weightsDataFileName == OrDefault(dataName, "weights.bin")
         thrown == DownloadGuards(modelJSONFileName, weightsDataFileName)
     IN /\ ithrown' = thrown
        /\ ihandler' =
             IF thrown # NoThrow THEN NoHandler
             ELSE [NoHandler EXCEPT !.kind = "download",
                                    !.modelJSONFileName = modelJSONFileName,
                                    !.weightsDataFileName = weightsDataFileName,
                                    !.triggerDownload = triggerDownload]
  /\ UNCHANGED <<ienv, localStorage, ipc, iconfig, modelJSONAnchor,
                 weightsDataAnchor>>
  /\ UNCHANGED notI

\* The handler of toLocalStorage is invoked: its first setItem.
LocalStorageHandler(config) ==
  /\ ipc = "idle"
  /\ ihandler.kind = "localStorage"
  /\ ncalls < MaxHandlerCalls
  /\ ncalls' = ncalls + 1
  /\ iconfig' = config
  /\ localStorage' = SetItem(localStorage, ConfigKey(ihandler.modelName),
                             <<"config", config>>)
  /\ ipc' = "config written"
  /\ UNCHANGED <<ienv, icall, ithrown, ihandler, modelJSONAnchor,
                 weightsDataAnchor>>
  /\ UNCHANGED notI

\* Its second setItem; the promise of the handler resolves.
LocalStorageHandlerWeights ==
  /\ ipc = "config written"
  /\ localStorage' = SetItem(localStorage, WeightsKey(ihandler.modelName),
                             <<"weights", iconfig>>)
  /\ ipc' = "idle"
  /\ UNCHANGED <<ienv, icall, ithrown, ihandler, iconfig, modelJSONAnchor,
                 weightsDataAnchor, ncalls>>
  /\ UNCHANGED notI

\* The second setItem throws (the storage is full); the promise rejects.
SetItemThrows ==
  /\ ipc = "config written"
  /\ ipc' = "idle"
  /\ UNCHANGED <<ienv, localStorage, icall, ithrown, ihandler, iconfig,
                 modelJSONAnchor, weightsDataAnchor, ncalls>>
  /\ UNCHANGED notI

\* The handler of toDownloadAnchors is invoked.
DownloadHandler(config) ==
  /\ ipc = "idle"
  /\ ihandler.kind = "download"
  /\ ncalls < MaxHandlerCalls
  /\ ncalls' = ncalls + 1
  /\ iconfig' = config
  /\ modelJSONAnchor' =
       [href |-> config, download |-> ihandler.modelJSONFileName,
        clicks |-> modelJSONAnchor.clicks
                     + (IF ihandler.triggerDownload THEN 1 ELSE 0)]
  /\ weightsDataAnchor' =
       [href |-> config, download |-> ihandler.weightsDataFileName,
        clicks |-> weightsDataAnchor.clicks
                     + (IF ihandler.triggerDownload THEN 1 ELSE 0)]
  /\ UNCHANGED <<ienv, localStorage, icall, ithrown, ihandler, ipc>>
  /\ UNCHANGED notI

HandlersNext ==
  \/ \E modelName \in ModelNames : ToLocalStorage(modelName)
  \/ \E jsonName \in FileNames("a.json"), dataName \in FileNames("w.bin"),
        triggerDownload \in BOOLEAN :
       ToDownloadAnchors(jsonName, dataName, triggerDownload)
  \/ \E config \in 1..2 : LocalStorageHandler(config)
  \/ LocalStorageHandlerWeights
  \/ SetItemThrows
  \/ \E config \in 1..2 : DownloadHandler(config)

----------------------------------------------------------------------------
\* CallbackList.onEpochEnd over a BaseLogger and a History

Registered == {"BaseLogger", "History"}

\* await callback.onEpochEnd(epoch, logs): the logs a callback is called
\* with, given the logs object as it was when the loop began and as it is
\* now.  Every callback gets the reference to the one object.
LogsHandedM(atStart, now) == atStart
LogsHanded(atStart, now) == now

\* if (logs == null) { logs = {}; }
LogsOrEmpty(logs, isNull) == IF isNull THEN NoLogs ELSE logs

\* The batch logs of the training loop: a batch of two samples with a loss
\* tensor and, possibly, a number-valued accuracy.
SizedBatchLogs ==
  { b \in BatchLogs : b["size"] = LNum(Whole(2)) /\ b["loss"].t = "tensor" }

\* The state after History.onTrainBegin (this.epoch = [], this.history = {})
\* of a list holding the two callbacks in either order.
EpochEndInit ==
  /\ xorder \in { <<"BaseLogger", "History">>, <<"History", "BaseLogger">> }
  /\ xpc = "idle"
  /\ xatStart = NoLogs
  /\ xepoch = <<>>
  /\ xhistory = [k \in LKeys |-> <<>>]

\* The list of a specification that has no such pair.
EpochEndIdle ==
  /\ xorder = <<"BaseLogger", "History">>
  /\ xpc = "idle"
  /\ xatStart = NoLogs
  /\ xepoch = <<>>
  /\ xhistory = [k \in LKeys |-> <<>>]

\* CallbackList.onEpochEnd(epoch, logs) up to its loop: elogs is the logs
\* object the loop hands out.
List_onEpochEnd(logs, isNull) ==
  /\ xpc = "idle"
  /\ lpc = "epoch"
  /\ isNull => logs = NoLogs
  /\ elogs' = LogsOrEmpty(logs, isNull)
  /\ xatStart' = LogsOrEmpty(logs, isNull)
  /\ xpc' = "loop"
  /\ UNCHANGED <<xorder, xepoch, xhistory>>
  /\ UNCHANGED <<seen, totals, metrics, lpc, blogs, elogsNull, egiven,
                 ltensors, lbadRead, lbatches, lepochs>>
  /\ UNCHANGED yvars
  /\ UNCHANGED notLX

\* The loop awaits the hook of the BaseLogger: first, or after History's.
Await_BaseLogger ==
  /\ xpc = "loop"
  /\ xorder[1] = "BaseLogger" \/ Len(xepoch) = lepochs
  /\ BaseLogger_onEpochEnd(LogsHanded(xatStart, elogs), FALSE)

\* The loop awaits the hook of the History: History.onEpochEnd(epoch, logs).
Await_History ==
  /\ xpc = "loop"
  /\ Len(xepoch) < lepochs
  /\ xorder[1] = "History" \/ lpc = "epochEnded"
  /\ LET logs == LogsHanded(xatStart, elogs)
     IN /\ xepoch' = EpochPush(xepoch, lepochs - 1)
        /\ xhistory' = [k \in LKeys |->
                          IF logs[k].t # "absent"
                            THEN HistoryPush(xhistory[k], logs[k])
                            ELSE xhistory[k]]
  /\ UNCHANGED <<xorder, xpc, xatStart>>
  /\ UNCHANGED notX

\* The loop is over: the promise of CallbackList.onEpochEnd resolves.
List_onEpochEndReturns ==
  /\ xpc = "loop"
  /\ lpc = "epochEnded"
  /\ Len(xepoch) = lepochs
  /\ xpc' = "idle"
  /\ UNCHANGED <<xorder, xatStart, xepoch, xhistory>>
  /\ UNCHANGED notX

EpochEndNext ==
  \/ BaseLogger_onTrainBegin
  \/ xpc = "idle" /\ BaseLogger_onEpochBegin
  \/ \E logs \in SizedBatchLogs : BaseLogger_onBatchEnd(logs)
  \/ DataResolved
  \/ \E dt \in LoggerDurations : CalibrationFrame(dt)
  \/ SteadyFrame
  \/ BaseLogger_onBatchEndResumes
  \/ \E logs \in EpochLogs, isNull \in BOOLEAN : List_onEpochEnd(logs, isNull)
  \/ Await_BaseLogger
  \/ Await_History
  \/ List_onEpochEndReturns

----------------------------------------------------------------------------
\* standardizeCallbacks (callbacks.ts 488-508)

\* Bound of the standardizeCallbacks specification
MaxCallbackArgs == 3      \* length of the array passed in

NoOrigin == [kind |-> "none", id |-> 0]
\* An instance of a BaseCallback subclass made by the caller.
CallbackObject(i) == [kind |-> "BaseCallback", id |-> i, from |-> NoOrigin]
\* A CustomCallbackConfig: a plain object of hook functions.
ConfigObject(i) == [kind |-> "config", id |-> i, from |-> NoOrigin]

\* new CustomCallback(config): a new object that took its hooks from config.
NewCustomCallbackM(config) == config
NewCustomCallback(config) ==
  [kind |-> "CustomCallback", id |-> 0,
   from |-> [kind |-> config.kind, id |-> config.id]]

\* x instanceof BaseCallback (CustomCallback extends BaseCallback)
InstanceOfBaseCallback(x) == x.kind \in {"BaseCallback", "CustomCallback"}

Elements == { CallbackObject(1), CallbackObject(2),
              ConfigObject(1), ConfigObject(2) }

RECURSIVE ArraysUpTo(_)
ArraysUpTo(n) ==
  IF n = 0 THEN { <<>> }
  ELSE ArraysUpTo(n - 1) \cup
       { Append(a, x) : a \in { b \in ArraysUpTo(n - 1) : Len(b) = n - 1 },
                        x \in Elements }

\* The argument of standardizeCallbacks: null, undefined, one value (held
\* as items[1]) or an array.
CallbackArgs ==
  { [form |-> f, items |-> <<>>] : f \in {"null", "undefined"} }
    \cup { [form |-> "single", items |-> <<x>>] : x \in Elements }
    \cup { [form |-> "array", items |-> a] : a \in ArraysUpTo(MaxCallbackArgs) }

\* callbacks == null
IsNullish(arg) == arg.form \in {"null", "undefined"}

\* Array.isArray(callbacks) && callbacks[0] instanceof BaseCallback;
\* callbacks[0] of an empty array is undefined.
FirstIsCallback(arg) ==
  /\ arg.form = "array"
  /\ Len(arg.items) > 0
  /\ InstanceOfBaseCallback(arg.items[1])

\* generic_utils.toList(x): x itself if it is an array, else [x].
ToList(arg) == IF arg.form = "array" THEN arg.items ELSE << arg.items[1] >>

\* callbackConfigs.map(callbackConfig => new CustomCallback(callbackConfig))
MapNew(configs) == [i \in 1..Len(configs) |-> NewCustomCallback(configs[i])]

NoReturn == [isNull |-> FALSE, items |-> <<>>]

StandardizeInit ==
  /\ zarg \in CallbackArgs
  /\ zpc = "called"
  /\ zout = NoReturn

StandardizeIdle ==
  /\ zarg = [form |-> "null", items |-> <<>>]
  /\ zpc = "called"
  /\ zout = NoReturn

\* if (callbacks == null) return null;
ReturnsNull ==
  /\ zpc = "called"
  /\ IsNullish(zarg)
  /\ zout' = [isNull |-> TRUE, items |-> <<>>]
  /\ zpc' = "returned"
  /\ UNCHANGED zarg
  /\ UNCHANGED notZ

\* if (callbacks instanceof BaseCallback) return [callbacks];
ReturnsSingleton ==
  /\ zpc = "called"
  /\ ~IsNullish(zarg)
  /\ zarg.form = "single" /\ InstanceOfBaseCallback(zarg.items[1])
  /\ zout' = [isNull |-> FALSE, items |-> << zarg.items[1] >>]
  /\ zpc' = "returned"
  /\ UNCHANGED zarg
  /\ UNCHANGED notZ

\* if (Array.isArray(callbacks) && callbacks[0] instanceof BaseCallback)
\*   return callbacks;
ReturnsArray ==
  /\ zpc = "called"
  /\ ~IsNullish(zarg)
  /\ ~(zarg.form = "single" /\ InstanceOfBaseCallback(zarg.items[1]))
  /\ FirstIsCallback(zarg)
  /\ zout' = [isNull |-> FALSE, items |-> zarg.items]
  /\ zpc' = "returned"
  /\ UNCHANGED zarg
  /\ UNCHANGED notZ

\* return toList(callbacks).map(config => new CustomCallback(config));
ReturnsWrapped ==
  /\ zpc = "called"
  /\ ~IsNullish(zarg)
  /\ ~(zarg.form = "single" /\ InstanceOfBaseCallback(zarg.items[1]))
  /\ ~FirstIsCallback(zarg)
  /\ zout' = [isNull |-> FALSE, items |-> MapNew(ToList(zarg))]
  /\ zpc' = "returned"
  /\ UNCHANGED zarg
  /\ UNCHANGED notZ

StandardizeNext ==
  \/ ReturnsNull
  \/ ReturnsSingleton
  \/ ReturnsArray
  \/ ReturnsWrapped

----------------------------------------------------------------------------
\* Specifications

\* The BaseLogger of a specification that does not use it.
LoggerIdle ==
  /\ seen = 0
  /\ totals = NoLogs
  /\ metrics = {}
  /\ lpc = "new"
  /\ blogs = NoLogs
  /\ elogs = NoLogs
  /\ elogsNull = TRUE
  /\ egiven = NoLogs
  /\ ltensors = <<>>
  /\ lbadRead = FALSE
  /\ lbatches = <<>>
  /\ lepochs = 0


InitYielder == YielderInit /\ ListIdle /\ HistoryInit /\ LoggerIdle /\ CustomIdle
  /\ SaveIdle /\ GraphIdle /\ SummaryIdle /\ WeightsIdle /\ HandlersIdle /\ EpochEndIdle /\ StandardizeIdle
SpecYielder == InitYielder /\ [][YielderNext]_vars

InitList == ListInit /\ YielderInit /\ HistoryInit /\ LoggerIdle /\ CustomIdle
  /\ SaveIdle /\ GraphIdle /\ SummaryIdle /\ WeightsIdle /\ HandlersIdle /\ EpochEndIdle /\ StandardizeIdle
SpecList == InitList /\ [][ListNext]_vars

InitHistory == HistoryInit /\ YielderInit /\ ListIdle /\ LoggerIdle /\ CustomIdle
  /\ SaveIdle /\ GraphIdle /\ SummaryIdle /\ WeightsIdle /\ HandlersIdle /\ EpochEndIdle /\ StandardizeIdle
SpecHistory == InitHistory /\ [][HistoryNext]_vars

InitLogger == LoggerInit /\ YielderInit /\ ListIdle /\ HistoryInit /\ CustomIdle
  /\ SaveIdle /\ GraphIdle /\ SummaryIdle /\ WeightsIdle /\ HandlersIdle /\ EpochEndIdle /\ StandardizeIdle
SpecLogger == InitLogger /\ [][LoggerNext]_vars

InitCustom == CustomInit /\ YielderInit /\ ListIdle /\ HistoryInit /\ LoggerIdle
  /\ SaveIdle /\ GraphIdle /\ SummaryIdle /\ WeightsIdle /\ HandlersIdle /\ EpochEndIdle /\ StandardizeIdle
SpecCustom == InitCustom /\ [][CustomNext]_vars

InitSave ==
  SaveInit /\ YielderInit /\ ListIdle /\ HistoryInit /\ LoggerIdle /\ CustomIdle
    /\ GraphIdle /\ SummaryIdle /\ WeightsIdle /\ HandlersIdle /\ EpochEndIdle /\ StandardizeIdle
SpecSave == InitSave /\ [][SaveNext]_vars

InitGraph ==
  GraphInit /\ YielderInit /\ ListIdle /\ HistoryInit /\ LoggerIdle /\ CustomIdle
    /\ SaveIdle /\ SummaryIdle /\ WeightsIdle /\ HandlersIdle /\ EpochEndIdle /\ StandardizeIdle
SpecGraph == InitGraph /\ [][GraphNext]_vars

InitSummary ==
  /\ qmodel \in SummaryGraphs
  /\ qpc = "depths" /\ sequentialLike = TRUE /\ nodes = <<>>
  /\ qdepth = 1 /\ qlayer = 1 /\ qinstance \in InstancesOf(qmodel)
  /\ SummaryInit /\ YielderInit /\ ListIdle /\ HistoryInit /\ LoggerIdle
  /\ CustomIdle /\ SaveIdle /\ WeightsIdle /\ HandlersIdle /\ EpochEndIdle /\ StandardizeIdle
SpecSummary == InitSummary /\ [][SummaryNext]_vars

InitWeights ==
  WeightsInit /\ YielderInit /\ ListIdle /\ HistoryInit /\ LoggerIdle
    /\ CustomIdle /\ SaveIdle /\ GraphIdle /\ SummaryIdle /\ HandlersIdle /\ EpochEndIdle /\ StandardizeIdle
SpecWeights == InitWeights /\ [][WeightsNext]_vars

InitHandlers ==
  HandlersInit /\ YielderInit /\ ListIdle /\ HistoryInit /\ LoggerIdle
    /\ CustomIdle /\ SaveIdle /\ GraphIdle /\ SummaryIdle /\ WeightsIdle /\ EpochEndIdle /\ StandardizeIdle
SpecHandlers == InitHandlers /\ [][HandlersNext]_vars

InitEpochEnd ==
  EpochEndInit /\ LoggerInit /\ YielderInit /\ ListIdle /\ HistoryInit
    /\ CustomIdle /\ SaveIdle /\ GraphIdle /\ SummaryIdle /\ WeightsIdle
    /\ HandlersIdle /\ StandardizeIdle
SpecEpochEnd == InitEpochEnd /\ [][EpochEndNext]_vars

InitStandardize ==
  StandardizeInit /\ YielderInit /\ ListIdle /\ HistoryInit /\ LoggerIdle
    /\ CustomIdle /\ SaveIdle /\ GraphIdle /\ SummaryIdle /\ WeightsIdle
    /\ HandlersIdle /\ EpochEndIdle
SpecStandardize == InitStandardize /\ [][StandardizeNext]_vars

----------------------------------------------------------------------------
\* Properties of ModelTrainingYielder

\* C9 (as stated): once the first AUTO_YIELD_DECISION_BATCH_COUNT = 2 calls
\* to maybeYieldOnBatch have returned, autoYieldEveryBatches is set.
C9_SetAfterTwoCalls ==
  (ypc = "idle" /\ batchCount >= AUTO_YIELD_DECISION_BATCH_COUNT)
    => autoYieldEveryBatches # NULL

\* C9 (amended): calibration completes with the call number
\* AUTO_YIELD_DECISION_BATCH_COUNT + 1 = 3 and not before: the first call
\* records no duration, so after three calls autoYieldEveryBatches is set
\* and batchDurationsMillis holds exactly the durations measured by calls 2
\* and 3; during the first two calls it is still null.
C9_SetAfterThreeCalls ==
  /\ (ypc = "idle" /\ batchCount >= AUTO_YIELD_DECISION_BATCH_COUNT + 1)
       => /\ autoYieldEveryBatches # NULL
          /\ Len(measured) = AUTO_YIELD_DECISION_BATCH_COUNT + 1
          /\ batchDurationsMillis = <<measured[2], measured[3]>>
  /\ batchCount <= AUTO_YIELD_DECISION_BATCH_COUNT
       => autoYieldEveryBatches = NULL

C9_Witness ==
  /\ ypc = "idle"
  /\ batchCount = AUTO_YIELD_DECISION_BATCH_COUNT + 1
  /\ autoYieldEveryBatches # NULL
  /\ batchDurationsMillis = <<8, 16>>

\* C10: the value assigned to autoYieldEveryBatches is
\* floor(16 / mean(batchDurationsMillis)) clamped below at 1, and it is a
\* finite positive integer for every set of measured durations, durations of
\* 0 ms included.
C10_FinitePositive ==
  autoYieldEveryBatches # NULL
    => /\ autoYieldEveryBatches # Infinity
       /\ autoYieldEveryBatches >= 1
       /\ \E k \in 0..(AUTO_YIELD_THRESHOLD_MILLIS * Len(batchDurationsMillis)) :
            /\ k * SumSeq(batchDurationsMillis)
                 <= AUTO_YIELD_THRESHOLD_MILLIS * Len(batchDurationsMillis)
            /\ AUTO_YIELD_THRESHOLD_MILLIS * Len(batchDurationsMillis)
                 < (k + 1) * SumSeq(batchDurationsMillis)
            /\ autoYieldEveryBatches = Max(1, k)

\* The batch numbers of the completed yields (nextFrame() resolved), oldest
\* first, and whether logs hold a value that is not a number.
IsFrame(e) == e[2] = "frame"
YieldBatches ==
  LET frames == SelectSeq(yieldTrace, IsFrame)
  IN [i \in 1..Len(frames) |-> frames[i][1]]
HasPending(logs) == \E i \in 1..Len(logs) : logs[i] = "tensor"

\* C11 (as stated): while autoYieldEveryBatches is unset every call of
\* maybeYieldOnBatch realizes a pending log value and awaits nextFrame(): the
\* calls that returned during calibration each completed a data() and then a
\* nextFrame().
C11_CalibrationRealizes ==
  (autoYieldEveryBatches = NULL /\ ypc = "idle")
    => /\ Len(yieldTrace) = 2 * batchCount
       /\ \A k \in 1..batchCount :
            /\ yieldTrace[2 * k - 1] = <<k, "data">>
            /\ yieldTrace[2 * k] = <<k, "frame">>

\* C11 (amended): while autoYieldEveryBatches is unset every call of
\* maybeYieldOnBatch yields: it realizes a pending log value when the logs
\* hold one (and nothing when they hold only numbers or are empty), then
\* awaits nextFrame(), and only then returns, with lastYieldBatchCount =
\* batchCount; so the calls made during calibration yielded at batches
\* 1, 2, ... without a gap.
C11_CalibrationYields ==
  /\ []((autoYieldEveryBatches = NULL /\ ypc = "idle")
          => /\ YieldBatches = [i \in 1..batchCount |-> i]
             /\ batchCount > 0 => lastYieldBatchCount = batchCount)
  /\ [][/\ (autoYieldEveryBatches = NULL /\ batchCount' = batchCount + 1)
             => ypc' = IF HasPending(ylogs') THEN "calData" ELSE "calFrame"
        /\ (ypc = "calData" /\ ypc' # ypc)
             => /\ ypc' = "calFrame"
                /\ yieldTrace' = Append(yieldTrace, <<batchCount, "data">>)
        /\ (ypc = "calFrame" /\ ypc' # ypc)
             => /\ ypc' = "idle"
                /\ lastYieldBatchCount' = batchCount'
                /\ yieldTrace' = Append(yieldTrace, <<batchCount, "frame">>)
       ]_vars

C11_Witness ==
  /\ autoYieldEveryBatches = NULL
  /\ ypc = "idle"
  /\ batchCount = 2
  /\ lastYieldBatchCount = 2
  /\ yieldTrace = << <<1, "frame">>, <<2, "data">>, <<2, "frame">> >>

\* C12: once calibrated, a call of maybeYieldOnBatch yields if and only if
\* batchCount - lastYieldBatchCount >= autoYieldEveryBatches; so the first
\* steady-state yield is exactly autoYieldEveryBatches batches after the
\* last calibration yield and consecutive steady-state yields are exactly
\* autoYieldEveryBatches batches apart.
C12_SteadyYieldSpacing ==
  /\ [](autoYieldEveryBatches # NULL
          => LET n == Len(measured)
             IN /\ Len(YieldBatches) >= n
                /\ \A i \in 1..n : YieldBatches[i] = i
                /\ \A i \in (n + 1)..Len(YieldBatches) :
                     /\ autoYieldEveryBatches # Infinity
                     /\ YieldBatches[i] - YieldBatches[i - 1]
                          = autoYieldEveryBatches)
  /\ [][/\ (autoYieldEveryBatches # NULL /\ batchCount' = batchCount + 1)
             => /\ ypc' \in {"stData", "stFrame", "idle"}
                /\ ypc' # "idle"
                     <=> /\ autoYieldEveryBatches # Infinity
                         /\ batchCount' - lastYieldBatchCount
                              >= autoYieldEveryBatches
        /\ (ypc = "stData" /\ ypc' # ypc) => ypc' = "stFrame"
        /\ (ypc = "stFrame" /\ ypc' # ypc)
             => /\ ypc' = "idle"
                /\ lastYieldBatchCount' = batchCount'
                /\ yieldTrace' = Append(yieldTrace, <<batchCount, "frame">>)
       ]_vars

C12_Witness ==
  /\ autoYieldEveryBatches = 2
  /\ ypc = "idle"
  /\ batchCount = 8
  /\ YieldBatches = <<1, 2, 3, 5, 7>>

\* The largest finite autoYieldEveryBatches the durations of the model give:
\* floor(16 * 2 / 8).
MaxFiniteEvery ==
  (AUTO_YIELD_THRESHOLD_MILLIS * AUTO_YIELD_DECISION_BATCH_COUNT) \div 8

\* C13: the training loop never runs on without yielding: whatever durations
\* were measured during calibration, a calibrated yielder has yielded within
\* a bounded number of batches, so the calls returned since the last yield
\* are fewer than the largest autoYieldEveryBatches the durations can give.
C13_YieldWithinBound ==
  (autoYieldEveryBatches # NULL /\ ypc = "idle")
    => batchCount - lastYieldBatchCount < MaxFiniteEvery

\* C14 (as stated): every yield awaits the realization of a pending value of
\* the batch logs and then nextFrame(): every completed nextFrame() of a
\* batch comes right after a completed data() of the same batch.
C14_DataThenFrame ==
  \A i \in 1..Len(yieldTrace) :
    IsFrame(yieldTrace[i])
      => i > 1 /\ yieldTrace[i - 1] = <<yieldTrace[i][1], "data">>

\* C14 (amended): every yield awaits nextFrame(); when the batch logs hold a
\* value that is not a number it first awaits data() of one such value and
\* nextFrame() is not awaited before that has completed; when the logs hold
\* no such value the yield is nextFrame() alone.
C14_DataThenFrameIfPending ==
  LET n == Len(yieldTrace)
      dataDone == n > 0 /\ yieldTrace[n] = <<batchCount, "data">>
  IN /\ \A i \in 1..n :
          ~IsFrame(yieldTrace[i])
            => IF i < n
                 THEN yieldTrace[i + 1] = <<yieldTrace[i][1], "frame">>
                 ELSE ypc \in {"calFrame", "stFrame"}
     /\ ypc \in {"calData", "stData"}
          => /\ HasPending(ylogs)
             /\ \A i \in 1..n : yieldTrace[i][1] < batchCount
     /\ ypc \in {"calFrame", "stFrame"} => (HasPending(ylogs) <=> dataDone)
     /\ (ypc = "idle" /\ n > 0 /\ yieldTrace[n] = <<batchCount, "frame">>)
          => (HasPending(ylogs)
                <=> n > 1 /\ yieldTrace[n - 1] = <<batchCount, "data">>)

C14_Witness ==
  /\ ypc = "idle"
  /\ ylogs = <<"num">>
  /\ yieldTrace = << <<1, "data">>, <<1, "frame">>, <<2, "frame">> >>

----------------------------------------------------------------------------
\* Properties of CallbackList and of the fit() loop

IsPrefix(s, t) == Len(s) <= Len(t) /\ s = SubSeq(t, 1, Len(s))

\* C1: for every lifecycle event dispatched on a CallbackList the matching
\* hook of each registered callback is invoked exactly once, in registration
\* order (callback ids are registration ranks), and the hook of callback i+1
\* is not started before the promise of the hook of callback i has resolved.
C1_InOrderAwaited ==
  dev # "none" =>
    /\ Len(started) <= Len(callbacks)
    /\ \A i \in 1..Len(started) : started[i] = <<i, dev>>
    /\ IsPrefix(resolved, started)
    /\ Len(started) - Len(resolved) = (IF dhook = "pending" THEN 1 ELSE 0)
    /\ LoopOver(didx, dhook, callbacks)
         => Len(started) = Len(callbacks) /\ resolved = started

C1_Witness ==
  /\ dev = "onBatchEnd"
  /\ LoopOver(didx, dhook, callbacks)
  /\ resolved = << <<1, "onBatchEnd">>, <<2, "onBatchEnd">> >>
  /\ Len(callbacks) = 2

\* The order of events of section 4.4 for E epochs of B batches.
RECURSIVE BatchEvents(_, _)
BatchEvents(b, B) ==
  IF b >= B THEN <<>>
  ELSE << <<"onBatchBegin", b>>, <<"step", b>>, <<"onBatchEnd", b>> >>
         \o BatchEvents(b + 1, B)

RECURSIVE EpochEvents(_, _, _)
EpochEvents(e, E, B) ==
  IF e >= E THEN <<>>
  ELSE << <<"onEpochBegin", e>> >> \o BatchEvents(0, B)
         \o << <<"onEpochEnd", e>> >> \o EpochEvents(e + 1, E, B)

FitEvents(E, B) ==
  << <<"onTrainBegin", NULL>> >> \o EpochEvents(0, E, B)
     \o << <<"onTrainEnd", NULL>> >>

\* What the CallbackList sees of these events: a call and a return each.
RECURSIVE AsDispatches(_)
AsDispatches(evs) ==
  IF evs = <<>> THEN <<>>
  ELSE (IF Head(evs)[1] = "step"
          THEN << Entry("step", "step", Head(evs)[2], 0) >>
          ELSE << Entry("call", Head(evs)[1], Head(evs)[2], 0),
                  Entry("ret", Head(evs)[1], Head(evs)[2], 0) >>)
       \o AsDispatches(Tail(evs))

\* What callback cb sees of them: one hook invocation each.
RECURSIVE AsHooks(_, _)
AsHooks(evs, cb) ==
  IF evs = <<>> THEN <<>>
  ELSE (IF Head(evs)[1] = "step"
          THEN << Entry("step", "step", Head(evs)[2], 0) >>
          ELSE << Entry("hook", Head(evs)[1], Head(evs)[2], cb) >>)
       \o AsHooks(Tail(evs), cb)

IsListLevel(x) == x.cb = 0
ListLevel(tr) == SelectSeq(tr, IsListLevel)
HooksSeenBy(tr, cb) == SelectSeq(tr, LAMBDA x : x.k = "step" \/ x.cb = cb)

\* C2: in every fit() run with E epochs and B batches the events occur in
\* the order onTrainBegin, then per epoch onEpochBegin, per batch
\* onBatchBegin, gradient step, onBatchEnd, then onEpochEnd, and onTrainEnd
\* last, each exactly once and none overlapping the next: at every moment
\* the events so far are a prefix of that order, for the CallbackList and for
\* every callback registered when training began, and a run that completes
\* has produced all of it.
C2_EventOrder ==
  /\ IsPrefix(ListLevel(etrace), AsDispatches(FitEvents(epochs, batches)))
  /\ \A cb \in 1..nAtStart :
       IsPrefix(HooksSeenBy(etrace, cb), AsHooks(FitEvents(epochs, batches), cb))
  /\ fpc = "done" =>
       /\ ListLevel(etrace) = AsDispatches(FitEvents(epochs, batches))
       /\ \A cb \in 1..nAtStart :
            HooksSeenBy(etrace, cb) = AsHooks(FitEvents(epochs, batches), cb)

C2_Witness ==
  /\ fpc = "done"
  /\ epochs = 2
  /\ batches = 2
  /\ nAtStart >= 2

----------------------------------------------------------------------------
\* Properties of History

\* The onEpochEnd calls of this run whose logs had key k.
CallsWith(k) == SelectSeq(hcalls, LAMBDA c : c.logs[k].t # "absent")

\* Entry x of the history holds the logged value v: v itself, or, once
\* syncData resolved the tensor v, the number that is element 0 of its data.
Records(x, v) == x = v \/ (v.t = "tensor" /\ x = NumV(v.data[1]))

\* C4: after onTrainBegin followed by N calls onEpochEnd(e_i, logs_i),
\* History.epoch is e_1..e_N in call order and history[k] lists the
\* logs_i[k] in call order; so a key present in the logs of every epoch has
\* a list as long as History.epoch.
C4_HistoryRecordsCalls ==
  hstate # "new" =>
    /\ epoch = [i \in 1..Len(hcalls) |-> hcalls[i].e]
    /\ \A k \in HKeys :
         /\ Len(history[k]) = Len(CallsWith(k))
         /\ \A i \in 1..Len(history[k]) :
              Records(history[k][i], CallsWith(k)[i].logs[k])
         /\ (\A i \in 1..Len(hcalls) : hcalls[i].logs[k].t # "absent")
              => Len(history[k]) = Len(epoch)

C4_Witness ==
  /\ hrun = 2
  /\ epoch = <<0, 1>>
  /\ Len(history["loss"]) = 2
  /\ Len(history["acc"]) = 1
  /\ history["loss"][1].t = "num"
  /\ history["loss"][2].t = "tensor"

\* C5: within one training run History.epoch and every history[k] only
\* grow by appending; no step, the abort of the run included, removes,
\* reorders or changes the value of an entry recorded for an earlier epoch.
C5_NoRollback ==
  [][hrun' = hrun =>
       /\ IsPrefix(epoch, epoch')
       /\ \A k \in HKeys :
            /\ Len(history'[k]) >= Len(history[k])
            /\ \A i \in 1..Len(history[k]) :
                 Records(history'[k][i], history[k][i])
       /\ hstate = "failed" => Len(epoch') = Len(epoch)]_vars

C5_Witness ==
  /\ hstate = "failed"
  /\ epoch = <<0, 1>>
  /\ Len(history["loss"]) = 2
  /\ \E c \in DOMAIN sync : sync[c].st = "resolved" /\ Len(sync[c].items) = 2

\* C8: after a syncData invocation completed, every entry that was in the
\* history when it started is a plain number, element 0 of the data of the
\* tensor it replaced (or the number it already was), at the same key and
\* index, and each such tensor has been disposed exactly once.
C8_SyncReplacesTensors ==
  \A c \in DOMAIN sync :
    sync[c].st = "resolved" =>
      \A k \in HKeys : \A i \in 1..Len(sync[c].snap[k]) :
        LET old == sync[c].snap[k][i]
        IN /\ sync[c].post[k][i] = NumV(old.data[1])
           /\ old.t = "tensor" => disposed[old.id] = 1

C8_Witness ==
  \E c \in DOMAIN sync :
    /\ sync[c].st = "resolved"
    /\ Len(sync[c].snap["loss"]) = 2
    /\ sync[c].snap["loss"][2].t = "tensor"
    /\ sync[c].snap["acc"][1].t = "tensor"
    /\ sync[c].snap["loss"][1].t = "num"

----------------------------------------------------------------------------
\* Properties of BaseLogger

\* Sum over the batches i >= j of this epoch whose logs have key k of
\* value_i * size_i, and sum over all batches i >= j of size_i.
RECURSIVE WeightedSum(_, _)
WeightedSum(k, j) ==
  IF j > Len(lbatches) THEN 0
  ELSE (IF lbatches[j][k].t = "absent" THEN 0
        ELSE lbatches[j][k].q.n * BatchSizeOf(lbatches[j]))
       + WeightedSum(k, j + 1)

RECURSIVE SizeSum(_)
SizeSum(j) ==
  IF j > Len(lbatches) THEN 0
  ELSE BatchSizeOf(lbatches[j]) + SizeSum(j + 1)

Occurred(k) == \E j \in 1..Len(lbatches) : lbatches[j][k].t # "absent"

\* C3: after onEpochBegin, onBatchEnd(logs_1) .. onBatchEnd(logs_n) and
\* onEpochEnd(e, logs), for every key of params.metrics that occurred in the
\* batch logs, logs[key] is (sum of value_i * size_i) / (sum of size_i) over
\* the batches of this epoch only, a number for number-valued and a tensor
\* for tensor-valued batch logs.
C3_EpochAverage ==
  (lpc = "epochEnded" /\ ~elogsNull) =>
    \A k \in metrics :
      Occurred(k) =>
        /\ elogs[k].t # "absent"
        /\ elogs[k].q = Norm([n |-> WeightedSum(k, 1), d |-> SizeSum(1)])

C3_Witness ==
  /\ lpc = "epochEnded"
  /\ ~elogsNull
  /\ lepochs = 2
  /\ Len(lbatches) = 2
  /\ "loss" \in metrics
  /\ elogs["loss"] = LTensor(Len(ltensors), [n |-> 5, d |-> 3])
  /\ elogs["acc"] = LNum([n |-> 1, d |-> 3])

\* C7: every running-total tensor BaseLogger creates for a tensor-valued
\* metric (a key of params.metrics) is disposed exactly once (the previous
\* total when onBatchEnd replaces it, the final total at onEpochEnd), none
\* is read after its disposal, and none is left undisposed after onEpochEnd.
C7_TotalsDisposedOnce ==
  /\ ~lbadRead
  /\ \A i \in 1..Len(ltensors) :
       ltensors[i].kind = "total" => ltensors[i].disp <= 1
  /\ lpc = "epochEnded" =>
       \A i \in 1..Len(ltensors) :
         (ltensors[i].kind = "total" /\ ltensors[i].key \in metrics)
           => ltensors[i].disp = 1

----------------------------------------------------------------------------
\* Properties of CustomCallback

\* C6: for each of the six hooks whose user function is defined,
\* resolveScalarsInLogs(logs) has completed before the user function is
\* called: the logs a user function is called with, and the logs while it
\* runs, hold no pending tensor, and every number it sees stands where the
\* caller put a number or a tensor.  A hook without user function calls none.
C6_UserSeesResolvedLogs ==
  /\ uobs.hook # "none" =>
       /\ uobs.hook \in uconfig
       /\ \A k \in UKeys :
            /\ uobs.logs[k] # "tensor"
            /\ uobs.logs[k] = "num" <=> uobs.given[k] \in {"num", "tensor"}
  /\ upc \in {"invoke", "user"} =>
       /\ uhook \in uconfig
       /\ \A k \in UKeys : ulogs[k] # "tensor"

C6_Witness ==
  /\ upc = "user"
  /\ uobs.hook = "onBatchEnd"
  /\ uobs.given = [k \in UKeys |-> "tensor"]
  /\ uobs.logs = [k \in UKeys |-> "num"]

----------------------------------------------------------------------------
\* Properties of Model.save and loadModel

SpecOf(w) == [name |-> w.name, shape |-> w.shape, dtype |-> w.dtype]
IsTrainable(w) == w.trainable
SpecEntry(layer, var, shape) ==
  [name |-> <<layer, var>>, shape |-> shape, dtype |-> "float32"]

\* C15: Model.save(handler) with a handler that has no save attribute
\* rejects with exactly the message 'Model.save() cannot proceed because the
\* IOHandler provided does not have the `save` attribute defined.'; the
\* promise never resolves, no artifacts are handed to the handler and
\* nothing is persisted.
C15_NoSaveAttributeRejects ==
  /\ []((shandler = "empty" /\ nsaves > 0)
          => /\ spc \in {"rejected", "idle"}
             /\ serror = NoSaveMessage
             /\ hsaves = <<>>)
  /\ [][shandler' = "empty" => store' = store]_vars

C15_Witness ==
  /\ shandler = "empty"
  /\ spc = "rejected"
  /\ serror = NoSaveMessage
  /\ hsaves = <<>>

\* C16: Model.save(handler) without trainableOnly calls handler.save exactly
\* once, with artifacts whose weightSpecs holds one {name, shape, dtype}
\* entry per weight of the model in declaration order (for one Dense layer of
\* 3 units on input shape [5]: kernel [5, 3] then bias [3], both float32),
\* whose weightData holds 4 bytes per element, and whose modelTopology is
\* model.toJSON(null, false).
C16_SaveAllWeights ==
  (shandler = "withSave" /\ ~sconfig /\ nsaves > 0)
    => /\ spc = "encoding" => hsaves = <<>>
       /\ spc \in {"saving", "resolved"} =>
            /\ Len(hsaves) = 1
            /\ hsaves[1].modelTopology = ToJSON(smodel)
            /\ Len(hsaves[1].weightSpecs) = Len(smodel.weights)
            /\ \A i \in 1..Len(smodel.weights) :
                 hsaves[1].weightSpecs[i] = SpecOf(smodel.weights[i])
            /\ Len(hsaves[1].weightData)
                 = 4 * SumSeq([i \in 1..Len(smodel.weights) |->
                                 Prod(smodel.weights[i].shape)])
            /\ smodel.layers = ModelAllWeights.layers =>
                 hsaves[1].weightSpecs
                   = << SpecEntry("dense_1", "kernel", <<5, 3>>),
                        SpecEntry("dense_1", "bias", <<3>>) >>
       /\ spc \in {"rejected", "idle"} => Len(hsaves) = 1

C16_Witness ==
  /\ spc = "resolved"
  /\ ~sconfig
  /\ smodel.layers = ModelAllWeights.layers
  /\ store.weightSpecs = << SpecEntry("dense_1", "kernel", <<5, 3>>),
                            SpecEntry("dense_1", "bias", <<3>>) >>
  /\ Len(store.weightData) = 72

\* C17: Model.save(handler, {trainableOnly: true}) saves specs and bytes for
\* exactly the trainable weights, in declaration order, and for none of the
\* others, while modelTopology is model.toJSON(null, false) and describes
\* every layer.
C17_SaveTrainableOnly ==
  (shandler = "withSave" /\ sconfig /\ spc \in {"saving", "resolved"})
    => LET kept == SelectSeq(smodel.weights, IsTrainable)
           a == hsaves[1]
       IN /\ Len(hsaves) = 1
          /\ a.weightSpecs = [i \in 1..Len(kept) |-> SpecOf(kept[i])]
          /\ a.weightData = ConcatBytes(kept, 1)
          /\ a.modelTopology = ToJSON(smodel)
          /\ Len(a.modelTopology.config.layers) = Len(smodel.layers)
          /\ smodel.layers = ModelFrozenFirst.layers =>
               a.weightSpecs = << SpecEntry("dense_2", "kernel", <<3, 2>>),
                                  SpecEntry("dense_2", "bias", <<2>>) >>

C17_Witness ==
  /\ spc = "resolved"
  /\ sconfig
  /\ smodel.layers = ModelFrozenFirst.layers
  /\ Len(smodel.weights) = 4
  /\ store.weightSpecs = << SpecEntry("dense_2", "kernel", <<3, 2>>),
                            SpecEntry("dense_2", "bias", <<2>>) >>
  /\ Len(store.modelTopology.config.layers) = 2

\* C18: save then load is a round trip: a model loaded back from what a save
\* persisted has the topology JSON of the saved model, the same number of
\* weights and, weight by weight in order, the same name, shape and values;
\* and what a save of all the weights persisted does load.
C18_RoundTrip ==
  /\ [](loaded.ok =>
          /\ ToJSON(loaded.model) = ToJSON(smodel)
          /\ Len(loaded.model.weights) = Len(smodel.weights)
          /\ \A i \in 1..Len(smodel.weights) :
               /\ loaded.model.weights[i].name = smodel.weights[i].name
               /\ loaded.model.weights[i].shape = smodel.weights[i].shape
               /\ loaded.model.weights[i].data = smodel.weights[i].data)
  /\ [][(loaded' # loaded /\ Len(store.weightSpecs) = Len(smodel.weights))
         => loaded'.ok]_vars

C18_Witness ==
  /\ loaded.ok
  /\ smodel = BuiltModel(ModelIndexedDB, 2)
  /\ loaded.model.weights = smodel.weights
  /\ Len(loaded.model.weights) = 2
  /\ loaded.model.weights[1].shape = <<4, 2>>

----------------------------------------------------------------------------
\* Properties of isModelSequentialLike

\* No layer of the model has more than one of its inboundNodes among the
\* visited nodes.
NoLayerSharedAmong(g, visited) ==
  \A layer \in 1..g.n :
    Cardinality({ k \in 1..g.n :
                    g.lay[k] = layer /\ IndexOfFound(visited, k) }) <= 1

IsLinearChain(g) ==
  /\ Cardinality({ k \in 1..g.n : g.inbound[k] = {} }) = 1
  /\ \A k \in 1..g.n : Cardinality(g.inbound[k]) <= 1
  /\ \A k \in 1..g.n :
       Cardinality({ j \in 1..g.n : k \in g.inbound[j] }) <= 1
  /\ \A j, k \in 1..g.n : g.lay[j] = g.lay[k] => j = k
HasMergeNode(g) == \E k \in 1..g.n : Cardinality(g.inbound[k]) >= 2

\* C20: every model whose graph is a linear chain of single-input /
\* single-output layers (its input layer included) is classified
\* sequential-like, and every model with a node of 2 or more inbound layers
\* is classified not sequential-like.
C20_ChainAndMerge ==
  qpc = "done" =>
    /\ IsLinearChain(qmodel) => sequentialLike
    /\ HasMergeNode(qmodel) => ~sequentialLike

C20_Witness ==
  /\ qpc = "done"
  /\ ~sequentialLike
  /\ qmodel.inbound = << {}, {1}, {1, 2} >>
  /\ qmodel.lay = <<1, 2, 3>>
  /\ \A d \in 1..Len(NodesByDepth(qmodel)) : Len(NodesByDepth(qmodel)[d]) = 1

----------------------------------------------------------------------------
\* Properties of printSummary

\* The number on the count line with the given label in the returned lines.
CountShown(label) ==
  LET at == CHOOSE i \in 1..Len(lines) : lines[i].label = label
  IN lines[at].n

\* The lines the function printSummary was given has been called with.
LinesPrinted ==
  LET own == SelectSeq(calls, LAMBDA c : c.fn = printFn)
  IN [i \in 1..Len(own) |-> own[i].line]

\* C21 (as stated): when printSummary has returned, the 'Non-trainable
\* params' line shows the parameter count of model.nonTrainableWeights, the
\* 'Trainable params' line the count of the trainable weights, and the
\* 'Total params' line the sum of the two numbers shown.
C21_CountLines ==
  ppc = "done" =>
    /\ CountShown("Non-trainable params: ")
         = CountParams(NonTrainableWeights(ModelWeights))
    /\ CountShown("Trainable params: ")
         = CountParams(TrainableWeights(ModelWeights))
    /\ CountShown("Total params: ")
         = CountShown("Trainable params: ")
             + CountShown("Non-trainable params: ")

\* C22 (as stated): when printSummary has returned, the strings its print
\* function was called with, in order, are exactly the returned lines, the
\* header row and every layer row among them.
C22_PrintFnGetsEveryLine ==
  ppc = "done" => LinesPrinted = lines

----------------------------------------------------------------------------
\* Properties of fit() with classWeight

\* The sample weights of an output nothing weighs: 1 for every sample.
Unweighted == [j \in 1..MaxSamples |-> 10]

\* C23: with two outputs and classWeight given as an array, a null entry
\* never makes fit() throw and its output is weighted as without
\* classWeight (weight 1 for every sample), while an output with a
\* non-null entry gets, per sample, that entry's weight of the sample's
\* class.
C23_NullEntry ==
  /\ (wn = 2 /\ classWeight.form = "array") =>
       \A o \in 1..2 :
         /\ (wentries[o].isNull /\ wpc = "thrown") => wo # o
         /\ (wentries[o].isNull /\ o <= Len(sampleWeights)) =>
              sampleWeights[o] = Unweighted
         /\ (~wentries[o].isNull /\ o <= Len(sampleWeights)) =>
              \A j \in 1..MaxSamples :
                sampleWeights[o][j] = wentries[o].w[wclasses[o][j]]
  /\ classWeight.form = "none" =>
       \A o \in 1..Len(sampleWeights) : sampleWeights[o] = Unweighted
C23_Witness ==
  /\ wn = 2 /\ classWeight.form = "array" /\ wpc = "ready"
  /\ wentries[1].isNull /\ ~wentries[2].isNull
  /\ sampleWeights[1] = Unweighted
  /\ \E j \in 1..MaxSamples : sampleWeights[2][j] = 9

\* C24: a sample of class c gets the weight the mapping has for c, whether
\* its target is the label c or the one-hot encoding of c.
C24_WeightOfClass ==
  (Len(sampleWeights) >= 1 /\ ~wstd[1].isNull) =>
    \A j \in 1..MaxSamples :
      /\ ClassIndex(TargetsOf(1)[j]) = wclasses[1][j]
      /\ sampleWeights[1][j] = wstd[1].w[wclasses[1][j]]
C24_Witness ==
  /\ wenc = "onehot" /\ wpc = "ready" /\ ~wstd[1].isNull
  /\ \E j \in 1..MaxSamples :
       wclasses[1][j] = 1 /\ sampleWeights[1][j] = wstd[1].w[1]
                          /\ wstd[1].w[1] # wstd[1].w[0]

\* C25: whatever form the classWeight argument has (array, mapping keyed by
\* output name, or a bare mapping for a single output), it resolves to the
\* same entry per output, and so to the same sample weights.
C25_FormsAgree ==
  (wpc # "start" /\ classWeight.form # "none") =>
    /\ wstd = [o \in 1..wn |-> wentries[o]]
    /\ \A o \in 1..Len(sampleWeights) : \A j \in 1..MaxSamples :
         sampleWeights[o][j] = SampleWeight(wentries[o], TargetsOf(o)[j])
C25_Witness ==
  /\ wn = 2 /\ wpc = "ready"
  /\ classWeight = AsMap(wentries, 2, TRUE)
  /\ ~wentries[1].isNull /\ ~wentries[2].isNull
  /\ wentries[1] # wentries[2]

----------------------------------------------------------------------------
\* Properties of the save handlers

\* A file name the caller left empty: undefined, null or ''.
EmptyName(v) == v.t # "string" \/ v.s = ""

\* C26 (as stated): toDownloadAnchors with an empty, null or undefined
\* modelJSONFileName throws the ValueError naming modelJSONFileName, with an
\* empty, null or undefined weightsDataFileName the one naming
\* weightsDataFileName, and returns no handler in either case.
C26_RejectsEachFileName ==
  icall.fn = "toDownloadAnchors" =>
    /\ (EmptyName(icall.modelJSONFileName)
          /\ ~EmptyName(icall.weightsDataFileName)) =>
         /\ ithrown = ValueError(
              "Empty, null or undefined modelJSONFileName is not allowed.")
         /\ ihandler = NoHandler
    /\ (EmptyName(icall.weightsDataFileName)
          /\ ~EmptyName(icall.modelJSONFileName)) =>
         /\ ithrown = ValueError(
              "Empty, null or undefined weightsDataFileName is not allowed.")
         /\ ihandler = NoHandler
    /\ (EmptyName(icall.weightsDataFileName)
          /\ EmptyName(icall.modelJSONFileName)) =>
         /\ ithrown.type = "ValueError"
         /\ ihandler = NoHandler

\* The model names for which handlers have written so far.
ValidNames == { v.s : v \in { n \in ModelNames : ~EmptyName(n) } }

----------------------------------------------------------------------------
\* Properties of a rejecting hook

\* The hooks of the callbacks 1..n of the list for the event in progress.
HooksUpTo(n, hook) == [k \in 1..n |-> <<callbacks[k], hook>>]

\* C29: when the hook of callback i rejects during a dispatch, the dispatch
\* rejects with that same error, the hooks of the callbacks before i have
\* resolved, callback i is the last to have received the event, and nothing
\* is dispatched or invoked afterwards.
C29_RejectStopsDispatch ==
  /\ [][ \A err \in HookErrors :
           HookReject(err) =>
             LET i == didx + 1
             IN /\ derror' = err
                /\ dev' = "none" /\ fpc' = "rejected"
                /\ resolved' = HooksUpTo(i - 1, HookOf(dev))
                /\ started' = HooksUpTo(i, HookOf(dev)) ]_vars
  /\ [][ fpc = "rejected" =>
           UNCHANGED <<started, resolved, etrace, derror, dev>> ]_vars
C29_Witness ==
  /\ fpc = "rejected" /\ derror = "E2" /\ herror = "E2"
  /\ Len(callbacks) = 2
  /\ Len(started) = 2 /\ Len(resolved) = 1

----------------------------------------------------------------------------
\* Properties of CallbackList.onEpochEnd over a BaseLogger and a History

LastOf(list) == list[Len(list)]

\* C28: with BaseLogger registered before History, when
\* CallbackList.onEpochEnd has returned, History has recorded, under every
\* key of the logs object, the value the object holds after BaseLogger wrote
\* into it; for a metric with a running total that value is the epoch
\* average total / seen; and History has one epoch entry per epoch.
C28_HistoryRecordsAverage ==
  (xpc = "idle" /\ lpc = "epochEnded" /\ xorder[1] = "BaseLogger") =>
    /\ Len(xepoch) = lepochs
    /\ \A key \in LKeys :
         /\ elogs[key].t # "absent" =>
              /\ Len(xhistory[key]) > 0
              /\ LastOf(xhistory[key]) = elogs[key]
         /\ (key \in metrics /\ totals[key].t = "num") =>
              LastOf(xhistory[key]) = LNum(RDiv(totals[key].q, Whole(seen)))
         /\ (key \in metrics /\ totals[key].t = "tensor") =>
              /\ LastOf(xhistory[key]).t = "tensor"
              /\ LastOf(xhistory[key]).q
                   = RMul(RDiv(Whole(1), Whole(seen)), totals[key].q)
C28_Witness ==
  /\ xpc = "idle" /\ lpc = "epochEnded" /\ xorder[1] = "BaseLogger"
  /\ lepochs = 2 /\ seen = 4
  /\ Len(xhistory["loss"]) = 2
  /\ LastOf(xhistory["loss"]).t = "tensor"
  /\ LastOf(xhistory["loss"]).q = Whole(2)
  /\ Len(xhistory["acc"]) >= 1

----------------------------------------------------------------------------
\* Properties of overlapping History.syncData invocations

\* Invocation c of syncData has returned: its promise resolved or rejected.
Settled(c) == sync[c].st \in {"resolved", "rejected"}

\* The tensors that were in the history when invocation c started.
TensorsSeenBy(c) ==
  { sync[c].snap[k][i].id : <<k, i>> \in
      { p \in HKeys \X (1..MaxEpochEnds) :
          /\ p[2] <= Len(sync[c].snap[p[1]])
          /\ sync[c].snap[p[1]][p[2]].t = "tensor" } }

\* No tensor is disposed twice, every number in the history is element 0 of
\* the tensor logged at that key and index, every tensor still in the history
\* is undisposed, and no logged entry is missing from the history.
NoDoubleDisposal ==
  /\ \A id \in DOMAIN disposed : disposed[id] <= 1
  /\ hstate # "new" =>
       \A k \in HKeys :
         /\ Len(history[k]) = Len(CallsWith(k))
         /\ \A i \in 1..Len(history[k]) :
              /\ Records(history[k][i], CallsWith(k)[i].logs[k])
              /\ history[k][i].t = "tensor" => disposed[history[k][i].id] = 0

\* C30: when syncData is invoked again while an earlier invocation is still
\* awaiting (or onEpochEnd appends entries during the await), no tensor is
\* disposed twice, every tensor an invocation found in the history has been
\* disposed exactly once when no invocation is awaiting any more, every
\* number in the history is element 0 of the tensor logged at that key and
\* index, and no logged entry is missing from the history.
C30_OverlappingSyncData ==
  /\ NoDoubleDisposal
  /\ (\A c \in DOMAIN sync : sync[c].st # "awaiting") =>
       \A c \in DOMAIN sync : Settled(c) =>
         \A id \in TensorsSeenBy(c) : disposed[id] = 1

\* No onEpochEnd ran between the start of the resolved invocation b and the
\* start of the invocation that took the snapshot snap.
NothingLoggedSince(b, snap) ==
  /\ snap = sync[b].post
  /\ \A k \in HKeys : Len(sync[b].post[k]) = Len(sync[b].snap[k])

\* C31: syncData is idempotent: an invocation made after an earlier one
\* resolved, with no onEpochEnd since that one started, collects nothing,
\* does not reject, disposes no tensor and changes neither epoch nor
\* history, at its start and when it resumes.
C31_SyncDataIdempotent ==
  [][\A c \in 2..MaxSyncCalls :
       (/\ sync'[c] # sync[c]
        /\ sync[c - 1].st = "resolved"
        /\ NothingLoggedSince(c - 1, sync'[c].snap))
       => /\ sync'[c].items = <<>>
          /\ sync'[c].st # "rejected"
          /\ disposed' = disposed
          /\ history' = history
          /\ epoch' = epoch]_vars

C31_Witness ==
  /\ sync[1].st = "resolved"
  /\ sync[2].st = "resolved"
  /\ NothingLoggedSince(1, sync[2].snap)
  /\ Len(sync[1].items) = 2
  /\ \E id \in DOMAIN disposed : disposed[id] = 1

----------------------------------------------------------------------------
\* Properties of BaseLogger.onEpochEnd

\* BaseLogger.onEpochEnd wrote logs[k]: k is listed in params.metrics and
\* has an accumulated total.
Averaged(k) == k \in metrics /\ totals[k].t # "absent"

\* C32: BaseLogger.onEpochEnd(epoch, logs) writes logs[k] only for the keys k
\* of params.metrics that have an accumulated total; every other entry of
\* logs stays as it was passed in, and with a null logs nothing is written
\* and no tensor is made or disposed.
C32_WritesOnlyAveragedKeys ==
  [][(lpc = "epoch" /\ lpc' = "epochEnded") =>
       IF elogsNull'
         THEN elogs' = egiven' /\ ltensors' = ltensors
         ELSE \A k \in LKeys :
                IF Averaged(k)
                  THEN /\ elogs'[k].t = totals[k].t
                       /\ elogs'[k].q = RDiv(totals[k].q, Whole(seen))
                  ELSE elogs'[k] = egiven'[k]]_vars

C32_Witness ==
  /\ lpc = "epochEnded"
  /\ ~elogsNull
  /\ metrics = {"acc"}
  /\ totals["loss"].t = "tensor"
  /\ egiven["loss"] = LNum(Whole(7))
  /\ elogs["loss"] = LNum(Whole(7))
  /\ elogs["val_loss"] = LNum(Whole(5))
  /\ egiven["acc"].t = "absent"
  /\ elogs["acc"].t = "num"

\* C33: whenever BaseLogger.onEpochEnd writes an epoch average, seen > 0,
\* whatever the batch logs were (a batch without 'size' counts as size 0).
C33_DivisorPositive ==
  (lpc = "epochEnded" /\ ~elogsNull /\ \E k \in LKeys : Averaged(k))
    => seen > 0

----------------------------------------------------------------------------
\* Properties of the fields of ModelTrainingYielder

\* C34: autoYieldEveryBatches is assigned at most once: once it is non-null
\* no step changes it or appends to batchDurationsMillis; in every state
\* batchCount is the number of maybeYieldOnBatch calls made and
\* lastYieldBatchCount, once assigned, is at most batchCount.
C34_YielderFields ==
  /\ [](/\ batchCount = ycalls
        /\ lastYieldBatchCount # NULL => lastYieldBatchCount <= batchCount)
  /\ [][autoYieldEveryBatches # NULL =>
          /\ autoYieldEveryBatches' = autoYieldEveryBatches
          /\ batchDurationsMillis' = batchDurationsMillis]_vars

C34_Witness ==
  /\ autoYieldEveryBatches # NULL
  /\ Len(batchDurationsMillis) = AUTO_YIELD_DECISION_BATCH_COUNT
  /\ ycalls = Len(batchDurationsMillis) + 2
  /\ lastYieldBatchCount = batchCount - 1
  /\ ypc = "idle"
----------------------------------------------------------------------------
\* Properties of standardizeCallbacks

\* The value returned for the input element x: x itself when it is a
\* BaseCallback, a new CustomCallback made from it when it is a config.
Standardized(x, y) ==
  IF InstanceOfBaseCallback(x)
    THEN y = x
    ELSE y.kind = "CustomCallback" /\ y.from = [kind |-> x.kind, id |-> x.id]

\* The result is null for a null or undefined argument and otherwise the
\* array of the standardized elements, in input order.
StandardResult ==
  IF IsNullish(zarg) THEN zout.isNull
  ELSE /\ ~zout.isNull
       /\ Len(zout.items) = Len(ToList(zarg))
       /\ \A i \in 1..Len(zout.items) :
            /\ InstanceOfBaseCallback(zout.items[i])
            /\ Standardized(ToList(zarg)[i], zout.items[i])

\* An array holding both BaseCallback instances and configs.
Mixed(arg) ==
  /\ arg.form = "array"
  /\ \E i, j \in 1..Len(arg.items) :
       /\ InstanceOfBaseCallback(arg.items[i])
       /\ ~InstanceOfBaseCallback(arg.items[j])

\* C35 as stated: for null, undefined, a single value and every array,
\* arrays mixing callbacks and configs included, standardizeCallbacks
\* returns null or the BaseCallbacks in input order, instances kept and
\* configs wrapped in a new CustomCallback.
C35_EveryArray == zpc = "returned" => StandardResult

\* C35: the same for null, undefined, a single value and every array that
\* does not mix BaseCallback instances with configs.
C35_UnmixedArrays == (zpc = "returned" /\ ~Mixed(zarg)) => StandardResult

C35_Witness ==
  /\ zpc = "returned"
  /\ zarg.form = "array"
  /\ zarg.items = << ConfigObject(2), ConfigObject(1) >>
  /\ Len(zout.items) = 2
  /\ zout.items[1].from.id = 2

----------------------------------------------------------------------------
\* Properties of the layer rows of printSummary

\* The returned lines hold, after the three lines of the header, for the
\* i-th layer of model.layers its row and then its rule.
RowAndRuleOf(i) ==
  LET layers == LayersOf(qmodel)
  IN /\ lines[2 + 2 * i]
          = PrintRow(LayerFields(qmodel, ModelWeights, layers[i]), positions)
     /\ lines[3 + 2 * i]
          = Rule(IF i = Len(layers) THEN "=" ELSE "_", lineLength)

\* C36 (as stated): for every model, sequential-like or not, printSummary
\* emits for each layer of model.layers, in order, one layer row followed by
\* one rule line, '=' repeated for the last layer and '_' repeated for the
\* others; there are model.layers.length layer rows.
C36_RowAndRulePerLayer ==
  ppc = "done" =>
    /\ Len(lines) = 3 + 2 * Len(LayersOf(qmodel)) + 4
    /\ \A i \in 1..Len(LayersOf(qmodel)) : RowAndRuleOf(i)

\* What holds of sequential-like models only.
RowAndRuleIfSequentialLike ==
  (ppc = "done" /\ SummarySequentialLike) =>
    /\ Len(lines) = 3 + 2 * Len(LayersOf(qmodel)) + 4
    /\ \A i \in 1..Len(LayersOf(qmodel)) : RowAndRuleOf(i)

\* The header row, the layer rows and the rules among the returned lines.
RowsAndRules == SelectSeq(lines, LAMBDA l : l.label = "")

\* C37 (as stated): when positions is not supplied, every header row, layer
\* row and rule line printSummary produces is exactly lineLength long, the
\* supplied lineLength or else 65 for a sequential-like model and 98 for
\* any other.
C37_RowsFillTheLine ==
  (ppc = "done" /\ positionsGiven = NoPositions) =>
    /\ lineLength \in LineLengths \ {NULL}
         \/ lineLength = (IF SummarySequentialLike THEN 65 ELSE 98)
    /\ \A i \in 1..Len(RowsAndRules) : Len(RowsAndRules[i].text) = lineLength

\* The same of the current version alone.
RowsFillTheLineNow ==
  (ppc = "done" /\ positionsGiven = NoPositions /\ pversion = "current") =>
    \A i \in 1..Len(RowsAndRules) : Len(RowsAndRules[i].text) = lineLength

----------------------------------------------------------------------------
\* Properties of the two versions of isModelSequentialLike

\* C38 (as stated): the two versions of isModelSequentialLike return the
\* same value for every model; for an instance of Sequential, where the
\* earlier version returns true without looking at the graph, the two loops
\* of the current version return true as well.
C38_VersionsAgree ==
  qpc = "done" =>
    /\ EarlierSequentialLike(qinstance, sequentialLike) = sequentialLike
    /\ qinstance = "Sequential" => sequentialLike

\* The versions agree on every model that is not an instance of Sequential
\* and on every Sequential that applies each of its layers once.
AgreeWithoutRepeatedLayer ==
  (qpc = "done" /\ \A j, k \in 1..qmodel.n : qmodel.lay[j] = qmodel.lay[k] => j = k)
    => EarlierSequentialLike(qinstance, sequentialLike) = sequentialLike

----------------------------------------------------------------------------
\* Properties of the handler of toLocalStorage

\* The model names toLocalStorage returns a handler for.
SavedNames == { n.s : n \in { x \in ModelNames : ~NoModelName(x) } }

\* The two keys of the model name hold one save: both are missing, or the
\* config and the weights of the same save.
HoldsOneSave(name) ==
  LET ck == ConfigKey(name)
      wk == WeightsKey(name)
  IN IF ck \in DOMAIN localStorage
       THEN /\ wk \in DOMAIN localStorage
            /\ localStorage[ck][1] = "config"
            /\ localStorage[wk][1] = "weights"
            /\ localStorage[wk][2] = localStorage[ck][2]
       ELSE wk \notin DOMAIN localStorage

\* C39 (as stated): whenever no save is in progress, the keys
\* modelName + '-config' and modelName + '-weights' hold the config and the
\* weights of one and the same save, the last that succeeded (a save that
\* failed has left the storage as it was), and no other key has been
\* written.
C39_SaveIsAllOrNothing ==
  ipc = "idle" =>
    /\ \A name \in SavedNames : HoldsOneSave(name)
    /\ DOMAIN localStorage \subseteq
         { ConfigKey(name) : name \in SavedNames }
           \cup { WeightsKey(name) : name \in SavedNames }

\* Only the two keys of the handler's model name are ever written.
OnlyTheTwoKeys ==
  [][\A k \in DOMAIN localStorage' :
       (k \notin DOMAIN localStorage \/ localStorage'[k] # localStorage[k])
         => k \in {ConfigKey(ihandler.modelName),
                   WeightsKey(ihandler.modelName)}]_vars

====
